---- MODULE Spec2Model ----
(* Frontmatter validator: check catalog, configuration resolution and the   *)
(* validation engine (pkg/validator, pkg/config), modelled as a state       *)
(* machine of the run loop that reads a file and validates it.              *)
EXTENDS Integers, Sequences, FiniteSets, TLC

(* ---------------- check identifiers (pkg/validator/types.go) ----------- *)
InvalidDescription == "INVALID_DESCRIPTION"
InvalidLastReviewDate == "INVALID_LAST_REVIEW_DATE"
InvalidOwner == "INVALID_OWNER"
LongDescription == "LONG_DESCRIPTION"
NoFullStopDescription == "NO_FULL_STOP_DESCRIPTION"
LongLinkTitle == "LONG_LINK_TITLE"
LongTitle == "LONG_TITLE"
LongUserQuestion == "LONG_USER_QUESTION"
NoDescription == "NO_DESCRIPTION"
NoFrontMatter == "NO_FRONT_MATTER"
NoLastReviewDate == "NO_LAST_REVIEW_DATE"
NoLinkTitle == "NO_LINK_TITLE"
NoOwner == "NO_OWNER"
NoQuestionMark == "NO_QUESTION_MARK"
NoTitle == "NO_TITLE"
NoTrailingNewline == "NO_TRAILING_NEWLINE"
NoUserQuestions == "NO_USER_QUESTIONS"
NoWeight == "NO_WEIGHT"
ReviewTooLongAgo == "REVIEW_TOO_LONG_AGO"
ShortDescription == "SHORT_DESCRIPTION"
ShortTitle == "SHORT_TITLE"
UnknownAttribute == "UNKNOWN_ATTRIBUTE"
RunbookLayoutNotSet == "RUNBOOK_LAYOUT_NOT_SET"
InvalidRunbookVariables == "INVALID_RUNBOOK_VARIABLES"
RunbookVariableWithoutName == "RUNBOOK_VARIABLE_WITHOUT_NAME"
InvalidRunbookVariableName == "INVALID_RUNBOOK_VARIABLE_NAME"
InvalidRunbookVariable == "INVALID_RUNBOOK_VARIABLE"
InvalidRunbookDashboards == "INVALID_RUNBOOK_DASHBOARDS"
InvalidRunbookDashboard == "INVALID_RUNBOOK_DASHBOARD"
InvalidRunbookDashboardLink == "INVALID_RUNBOOK_DASHBOARD_LINK"
InvalidRunbookKnownIssues == "INVALID_RUNBOOK_KNOWN_ISSUES"
InvalidRunbookKnownIssue == "INVALID_RUNBOOK_KNOWN_ISSUE"
InvalidRunbookKnownIssueURL == "INVALID_RUNBOOK_KNOWN_ISSUE_URL"
RunbookAppearsInMenu == "RUNBOOK_APPEARS_IN_MENU"

SeverityFail == "FAIL"
SeverityWarn == "WARN"

(* ---------------- check catalog ---------------------------------------- *)
GetChecks ==
  <<
     [ID |-> NoFrontMatter, Severity |-> SeverityFail, HasValue |-> FALSE],
     [ID |-> NoTrailingNewline, Severity |-> SeverityFail, HasValue |-> FALSE],
     [ID |-> UnknownAttribute, Severity |-> SeverityFail, HasValue |-> TRUE],
     [ID |-> NoTitle, Severity |-> SeverityFail, HasValue |-> FALSE],
     [ID |-> LongTitle, Severity |-> SeverityFail, HasValue |-> TRUE],
     [ID |-> ShortTitle, Severity |-> SeverityFail, HasValue |-> TRUE],
     [ID |-> NoDescription, Severity |-> SeverityFail, HasValue |-> FALSE],
     [ID |-> LongDescription, Severity |-> SeverityFail, HasValue |-> TRUE],
     [ID |-> NoFullStopDescription, Severity |-> SeverityFail, HasValue |-> TRUE],
     [ID |-> ShortDescription, Severity |-> SeverityFail, HasValue |-> TRUE],
     [ID |-> InvalidDescription, Severity |-> SeverityFail, HasValue |-> FALSE],
     [ID |-> NoLinkTitle, Severity |-> SeverityWarn, HasValue |-> FALSE],
     [ID |-> LongLinkTitle, Severity |-> SeverityFail, HasValue |-> FALSE],
     [ID |-> NoWeight, Severity |-> SeverityWarn, HasValue |-> FALSE],
     [ID |-> NoOwner, Severity |-> SeverityFail, HasValue |-> FALSE],
     [ID |-> InvalidOwner, Severity |-> SeverityFail, HasValue |-> TRUE],
     [ID |-> NoLastReviewDate, Severity |-> SeverityWarn, HasValue |-> FALSE],
     [ID |-> ReviewTooLongAgo, Severity |-> SeverityWarn, HasValue |-> TRUE],
     [ID |-> InvalidLastReviewDate, Severity |-> SeverityFail, HasValue |-> TRUE],
     [ID |-> NoUserQuestions, Severity |-> SeverityFail, HasValue |-> FALSE],
     [ID |-> LongUserQuestion, Severity |-> SeverityFail, HasValue |-> TRUE],
     [ID |-> NoQuestionMark, Severity |-> SeverityFail, HasValue |-> TRUE],
     [ID |-> RunbookLayoutNotSet, Severity |-> SeverityFail, HasValue |-> FALSE],
     [ID |-> InvalidRunbookVariables, Severity |-> SeverityFail, HasValue |-> FALSE],
     [ID |-> RunbookVariableWithoutName, Severity |-> SeverityFail, HasValue |-> TRUE],
     [ID |-> InvalidRunbookVariableName, Severity |-> SeverityFail, HasValue |-> TRUE],
     [ID |-> InvalidRunbookVariable, Severity |-> SeverityFail, HasValue |-> TRUE],
     [ID |-> InvalidRunbookDashboards, Severity |-> SeverityFail, HasValue |-> FALSE],
     [ID |-> InvalidRunbookDashboard, Severity |-> SeverityFail, HasValue |-> TRUE],
     [ID |-> InvalidRunbookDashboardLink, Severity |-> SeverityFail, HasValue |-> TRUE],
     [ID |-> InvalidRunbookKnownIssues, Severity |-> SeverityFail, HasValue |-> FALSE],
     [ID |-> InvalidRunbookKnownIssue, Severity |-> SeverityFail, HasValue |-> TRUE],
     [ID |-> InvalidRunbookKnownIssueURL, Severity |-> SeverityFail, HasValue |-> TRUE],
     [ID |-> RunbookAppearsInMenu, Severity |-> SeverityFail, HasValue |-> FALSE]
  >>

GetValidKeys ==
  {"aliases", "changes_categories", "changes_entry", "classification", "crd", "date", "description", "expiration_in_days", "last_review_date", "layout", "linkTitle", "menu", "mermaid", "owner", "runbook", "search", "source_repository", "source_repository_ref", "technical_name", "title", "toc_hide", "user_questions", "weight"}

(* ---------------- string helpers (Go package strings) ------------------- *)
HasPrefix(s, prefix) ==
  Len(s) >= Len(prefix) /\ SubSeq(s, 1, Len(prefix)) = prefix

HasSuffix(s, suffix) ==
  Len(s) >= Len(suffix) /\ SubSeq(s, Len(s) - Len(suffix) + 1, Len(s)) = suffix

TrimPrefix(s, prefix) ==
  IF HasPrefix(s, prefix) THEN SubSeq(s, Len(prefix) + 1, Len(s)) ELSE s

TrimSuffix(s, suffix) ==
  IF HasSuffix(s, suffix) THEN SubSeq(s, 1, Len(s) - Len(suffix)) ELSE s

Contains(s, substr) ==
  \E i \in 1..(Len(s) - Len(substr) + 1) : SubSeq(s, i, i + Len(substr) - 1) = substr

(* ---------------- configuration (pkg/config) ---------------------------- *)
RuleSet(enabled, disabled) ==
  [EnabledChecks |-> enabled, DisabledChecks |-> disabled]

DirectoryOverride(path, enabled, disabled) ==
  [Path |-> path, EnabledChecks |-> enabled, DisabledChecks |-> disabled]

Config(defaultRules, overrides) ==
  [DefaultRules |-> defaultRules, DirectoryOverrides |-> overrides]

\* Variant of pathMatches whose "P/**" form tests the prefix without the
\* separator.
pathMatches_NoSeparator(filePath0, pattern0) ==
  LET filePath == TrimPrefix(filePath0, "./")
      pattern  == TrimPrefix(pattern0, "./")
  IN  IF HasSuffix(pattern, "/**")
      THEN HasPrefix(filePath, TrimSuffix(pattern, "/**"))
      ELSE IF HasSuffix(pattern, "/*")
      THEN LET prefix       == TrimSuffix(pattern, "/*")
               relativePath == TrimPrefix(filePath, prefix \o "/")
           IN  HasPrefix(filePath, prefix \o "/") /\ ~Contains(relativePath, "/")
      ELSE filePath = pattern

\* pathMatches: "./" stripped from both sides, then "P/**", "P/*" or exact.
pathMatches(filePath0, pattern0) ==
  LET filePath == TrimPrefix(filePath0, "./")
      pattern  == TrimPrefix(pattern0, "./")
  IN  IF HasSuffix(pattern, "/**")
      THEN LET prefix == TrimSuffix(pattern, "/**")
           IN  HasPrefix(filePath, prefix \o "/") \/ filePath = prefix
      ELSE IF HasSuffix(pattern, "/*")
      THEN LET prefix       == TrimSuffix(pattern, "/*")
               relativePath == TrimPrefix(filePath, prefix \o "/")
           IN  HasPrefix(filePath, prefix \o "/") /\ ~Contains(relativePath, "/")
      ELSE filePath = pattern

\* enabled[check] = value on a Go map[string]bool, modelled as a function.
MapSet(m, k, val) ==
  [x \in (DOMAIN m) \cup {k} |-> IF x = k THEN val ELSE m[x]]

RECURSIVE SetAll(_, _, _)
SetAll(m, checks, val) ==
  IF checks = <<>> THEN m
  ELSE SetAll(MapSet(m, Head(checks), val), Tail(checks), val)

\* Variant of ApplyOverride that removes the disabled identifiers before it
\* adds the enabled ones.
ApplyOverride_DisableFirst(enabled, override, filePath) ==
  IF pathMatches(filePath, override.Path)
  THEN SetAll(SetAll(enabled, override.DisabledChecks, FALSE),
              override.EnabledChecks, TRUE)
  ELSE enabled

\* One iteration of the override loop of GetEnabledChecksForPath.
ApplyOverride(enabled, override, filePath) ==
  IF pathMatches(filePath, override.Path)
  THEN SetAll(SetAll(enabled, override.EnabledChecks, TRUE),
              override.DisabledChecks, FALSE)
  ELSE enabled

RECURSIVE ApplyOverrides(_, _, _)
ApplyOverrides(enabled, overrides, filePath) ==
  IF overrides = <<>> THEN enabled
  ELSE ApplyOverrides(ApplyOverride(enabled, Head(overrides), filePath),
                      Tail(overrides), filePath)

\* Manager.GetEnabledChecksForPath; the returned slice is in map order, so
\* it is modelled as the set of its elements.
GetEnabledChecksForPath(config, filePath) ==
  LET start    == [x \in {} |-> TRUE]
      enabled0 == SetAll(start, config.DefaultRules.EnabledChecks, TRUE)
      enabled1 == SetAll(enabled0, config.DefaultRules.DisabledChecks, FALSE)
      enabled  == ApplyOverrides(enabled1, config.DirectoryOverrides, filePath)
  IN  {check \in DOMAIN enabled : enabled[check]}

\* Manager.getDefaultConfig: the configuration used when no file exists.
getDefaultConfig ==
  Config(
    RuleSet(<<"NO_FRONT_MATTER", "NO_TRAILING_NEWLINE", "UNKNOWN_ATTRIBUTE",
              "NO_TITLE", "LONG_TITLE", "SHORT_TITLE", "NO_DESCRIPTION",
              "LONG_DESCRIPTION", "SHORT_DESCRIPTION",
              "NO_FULL_STOP_DESCRIPTION", "INVALID_DESCRIPTION",
              "NO_LINK_TITLE", "LONG_LINK_TITLE", "NO_WEIGHT", "NO_OWNER",
              "INVALID_OWNER", "NO_LAST_REVIEW_DATE", "REVIEW_TOO_LONG_AGO",
              "INVALID_LAST_REVIEW_DATE", "NO_USER_QUESTIONS",
              "LONG_USER_QUESTION", "NO_QUESTION_MARK">>, <<>>),
    << DirectoryOverride("src/content/reference/platform-api/crd/**", <<>>,
         <<"NO_DESCRIPTION", "LONG_DESCRIPTION", "SHORT_DESCRIPTION",
           "NO_FULL_STOP_DESCRIPTION", "INVALID_DESCRIPTION", "NO_LINK_TITLE",
           "NO_OWNER", "NO_USER_QUESTIONS">>),
       DirectoryOverride("src/content/vintage/use-the-api/management-api/crd/**", <<>>,
         <<"NO_DESCRIPTION", "LONG_DESCRIPTION", "SHORT_DESCRIPTION",
           "NO_FULL_STOP_DESCRIPTION", "INVALID_DESCRIPTION", "NO_LINK_TITLE",
           "NO_OWNER", "NO_USER_QUESTIONS">>),
       DirectoryOverride("src/content/changes/**", <<>>,
         <<"NO_DESCRIPTION", "SHORT_DESCRIPTION", "NO_FULL_STOP_DESCRIPTION",
           "NO_LINK_TITLE", "LONG_LINK_TITLE", "NO_OWNER",
           "NO_USER_QUESTIONS">>),
       DirectoryOverride("src/content/vintage/**", <<>>,
         <<"NO_LAST_REVIEW_DATE", "REVIEW_TOO_LONG_AGO">>),
       DirectoryOverride("src/content/reference/platform-api/cluster-apps/**", <<>>,
         <<"NO_LAST_REVIEW_DATE", "REVIEW_TOO_LONG_AGO">>),
       DirectoryOverride("src/content/meta/**", <<>>,
         <<"NO_LAST_REVIEW_DATE">>) >>)

\* defaultConfigManager.GetEnabledChecksForPath: the validator's own default.
defaultConfigManagerChecks(filePath) ==
  {"NO_FRONT_MATTER", "NO_TRAILING_NEWLINE", "UNKNOWN_ATTRIBUTE", "NO_TITLE",
   "LONG_TITLE", "SHORT_TITLE", "NO_DESCRIPTION", "LONG_DESCRIPTION",
   "SHORT_DESCRIPTION", "NO_FULL_STOP_DESCRIPTION", "INVALID_DESCRIPTION",
   "NO_LINK_TITLE", "LONG_LINK_TITLE", "NO_WEIGHT", "NO_OWNER",
   "INVALID_OWNER", "NO_LAST_REVIEW_DATE", "REVIEW_TOO_LONG_AGO",
   "INVALID_LAST_REVIEW_DATE", "NO_USER_QUESTIONS", "LONG_USER_QUESTION",
   "NO_QUESTION_MARK", "RUNBOOK_LAYOUT_NOT_SET", "INVALID_RUNBOOK_VARIABLES",
   "RUNBOOK_VARIABLE_WITHOUT_NAME", "INVALID_RUNBOOK_VARIABLE_NAME",
   "INVALID_RUNBOOK_VARIABLE", "INVALID_RUNBOOK_DASHBOARDS",
   "INVALID_RUNBOOK_DASHBOARD", "INVALID_RUNBOOK_DASHBOARD_LINK",
   "INVALID_RUNBOOK_KNOWN_ISSUES", "INVALID_RUNBOOK_KNOWN_ISSUE",
   "INVALID_RUNBOOK_KNOWN_ISSUE_URL", "RUNBOOK_APPEARS_IN_MENU"}

\* The ConfigManager a Validator holds: the defaultConfigManager of New(), or
\* a *config.Manager with its loaded Config (NewWithConfig).
EmptyConfig == Config(RuleSet(<<>>, <<>>), <<>>)
DefaultConfigManager == [kind |-> "default", config |-> EmptyConfig]
Manager(config) == [kind |-> "manager", config |-> config]

\* ConfigManager.GetEnabledChecksForPath, dispatched on the implementation.
EnabledChecksFor(cm, filePath) ==
  IF cm.kind = "default" THEN defaultConfigManagerChecks(filePath)
  ELSE GetEnabledChecksForPath(cm.config, filePath)

\* Validator.shouldSkipCheck
shouldSkipCheck(cm, filePath, checkID) ==
  IF cm.kind # "nil"
  THEN checkID \notin EnabledChecksFor(cm, filePath)
  ELSE FALSE

(* ---------------- 64-bit durations (Go time.Duration, int64 ns) --------- *)
\* Go computes durations in int64 nanoseconds.  The values exceed the range
\* of the model checker's integers, so they are held as little-endian limb
\* sequences (base 2^15) with exact arithmetic, and wrapped to 64 bits where
\* the Go arithmetic wraps.
Limb == 32768

RECURSIVE NatToBig(_)
NatToBig(n) == IF n = 0 THEN <<>> ELSE <<n % Limb>> \o NatToBig(n \div Limb)

RECURSIVE BigNorm(_)
BigNorm(a) ==
  IF a = <<>> THEN <<>>
  ELSE IF a[Len(a)] = 0 THEN BigNorm(SubSeq(a, 1, Len(a) - 1)) ELSE a

RECURSIVE BigAddC(_, _, _)
BigAddC(a, b, carry) ==
  IF a = <<>> /\ b = <<>> THEN (IF carry = 0 THEN <<>> ELSE <<carry>>)
  ELSE LET x == (IF a = <<>> THEN 0 ELSE Head(a))
                + (IF b = <<>> THEN 0 ELSE Head(b)) + carry
       IN  <<x % Limb>> \o BigAddC(IF a = <<>> THEN <<>> ELSE Tail(a),
                                   IF b = <<>> THEN <<>> ELSE Tail(b),
                                   x \div Limb)

BigAdd(a, b) == BigNorm(BigAddC(a, b, 0))

\* a - b for a >= b
RECURSIVE BigSubB(_, _, _)
BigSubB(a, b, borrow) ==
  IF a = <<>> THEN <<>>
  ELSE LET x == Head(a) - (IF b = <<>> THEN 0 ELSE Head(b)) - borrow
       IN  <<x % Limb>> \o BigSubB(Tail(a),
                                   IF b = <<>> THEN <<>> ELSE Tail(b),
                                   IF x < 0 THEN 1 ELSE 0)

BigSub(a, b) == BigNorm(BigSubB(a, b, 0))

RECURSIVE BigMulLimb(_, _, _)
BigMulLimb(a, k, carry) ==
  IF a = <<>> THEN (IF carry = 0 THEN <<>> ELSE <<carry>>)
  ELSE LET x == Head(a) * k + carry
       IN  <<x % Limb>> \o BigMulLimb(Tail(a), k, x \div Limb)

RECURSIVE BigMul(_, _)
BigMul(a, b) ==
  IF b = <<>> THEN <<>>
  ELSE BigAdd(BigMulLimb(a, Head(b), 0), <<0>> \o BigMul(a, Tail(b)))

\* a < b on normalised naturals
RECURSIVE BigLess(_, _)
BigLess(a, b) ==
  IF Len(a) # Len(b) THEN Len(a) < Len(b)
  ELSE IF a = <<>> THEN FALSE
  ELSE IF a[Len(a)] # b[Len(b)] THEN a[Len(a)] < b[Len(b)]
  ELSE BigLess(BigNorm(SubSeq(a, 1, Len(a) - 1)), BigNorm(SubSeq(b, 1, Len(b) - 1)))

Two63 == <<0, 0, 0, 0, 8>>
Two64 == <<0, 0, 0, 0, 16>>
MaxInt64 == BigSub(Two63, <<1>>)

\* a mod 2^64: limbs 1..4 hold bits 0..59, the fifth limb bits 60..63.
Trunc64(a) ==
  BigNorm([i \in 1..5 |-> IF i > Len(a) THEN 0
                          ELSE IF i = 5 THEN a[i] % 16 ELSE a[i]])

\* A signed value is [neg, mag].  Wrap64 is the int64 a Go expression holds
\* when its mathematical value is the signed value x (two's complement).
Signed(neg, mag) == [neg |-> neg /\ mag # <<>>, mag |-> mag]

Wrap64(x) ==
  LET low == Trunc64(x.mag)
      u   == IF x.neg /\ low # <<>> THEN BigSub(Two64, low) ELSE low
  IN  IF BigLess(u, Two63) THEN Signed(FALSE, u)
      ELSE Signed(TRUE, BigSub(Two64, u))

\* a > b on signed values
SignedGreater(a, b) ==
  IF a.neg # b.neg THEN b.neg
  ELSE IF a.neg THEN BigLess(a.mag, b.mag)
  ELSE BigLess(b.mag, a.mag)

IntToSigned(n) == Signed(n < 0, NatToBig(IF n < 0 THEN 0 - n ELSE n))

SignedMul(a, b) == Signed(a.neg # b.neg, BigNorm(BigMul(a.mag, b.mag)))

\* time.Second, time.Hour as int64 nanosecond counts
Second == IntToSigned(1000000000)
Hour   == SignedMul(IntToSigned(3600), Second)

\* time.Duration(expiration)*24*time.Hour, each product wrapping to int64
ExpirationDuration(expiration) ==
  Wrap64(SignedMul(Wrap64(SignedMul(IntToSigned(expiration), IntToSigned(24))), Hour))

(* ---------------- instants (Go time.Time) -------------------------------- *)
\* An instant is [d, s]: days since 1970-01-01 and seconds of the day, UTC.
SecondsPerDay == 86400

Instant(d, s) == [d |-> d + (s \div SecondsPerDay), s |-> s % SecondsPerDay]

\* t.After(u)
After(t, u) == t.d > u.d \/ (t.d = u.d /\ t.s > u.s)

\* t.Sub(u): the difference in nanoseconds, saturated to the int64 range
Sub(t, u) ==
  LET neg   == After(u, t)
      hi    == IF neg THEN u ELSE t
      lo    == IF neg THEN t ELSE u
      carry == IF hi.s < lo.s THEN 1 ELSE 0
      days  == hi.d - lo.d - carry
      secs  == hi.s - lo.s + carry * SecondsPerDay
      total == BigAdd(BigMul(NatToBig(days), NatToBig(SecondsPerDay)), NatToBig(secs))
      ns    == BigNorm(BigMul(total, Second.mag))
  IN  IF neg THEN (IF BigLess(Two63, ns) THEN Signed(TRUE, Two63) ELSE Signed(TRUE, ns))
      ELSE (IF BigLess(MaxInt64, ns) THEN Signed(FALSE, MaxInt64) ELSE Signed(FALSE, ns))

\* days since 1970-01-01 of a proleptic Gregorian date
DaysFromCivil(y0, m, d) ==
  LET y   == IF m <= 2 THEN y0 - 1 ELSE y0
      era == y \div 400
      yoe == y - era * 400
      mp  == (m + 9) % 12
      doy == (153 * mp + 2) \div 5 + d - 1
      doe == yoe * 365 + yoe \div 4 - yoe \div 100 + doy
  IN  era * 146097 + doe - 719468

IsLeap(y) == (y % 4 = 0 /\ y % 100 # 0) \/ y % 400 = 0

DaysIn(m, y) ==
  IF m = 2 THEN (IF IsLeap(y) THEN 29 ELSE 28)
  ELSE IF m \in {4, 6, 9, 11} THEN 30 ELSE 31

(* ---------------- date parsing (FlexibleDate.UnmarshalYAML) ------------- *)
WhiteSpace == {" ", "\t", "\n", "\r", "\f"}

RECURSIVE TrimLeft(_)
TrimLeft(s) ==
  IF s # "" /\ SubSeq(s, 1, 1) \in WhiteSpace
  THEN TrimLeft(SubSeq(s, 2, Len(s))) ELSE s

RECURSIVE TrimRight(_)
TrimRight(s) ==
  IF s # "" /\ SubSeq(s, Len(s), Len(s)) \in WhiteSpace
  THEN TrimRight(SubSeq(s, 1, Len(s) - 1)) ELSE s

\* strings.TrimSpace
TrimSpace(s) == TrimRight(TrimLeft(s))

Digits == {"0", "1", "2", "3", "4", "5", "6", "7", "8", "9"}

DigitVal(c) ==
  CASE c = "0" -> 0 [] c = "1" -> 1 [] c = "2" -> 2 [] c = "3" -> 3
    [] c = "4" -> 4 [] c = "5" -> 5 [] c = "6" -> 6 [] c = "7" -> 7
    [] c = "8" -> 8 [] c = "9" -> 9

IsNum(s) == \A i \in 1..Len(s) : SubSeq(s, i, i) \in Digits

RECURSIVE Atoi(_)
Atoi(s) ==
  IF s = "" THEN 0
  ELSE Atoi(SubSeq(s, 1, Len(s) - 1)) * 10 + DigitVal(SubSeq(s, Len(s), Len(s)))

\* The layouts FlexibleDate tries, in order, as sequences of layout elements
\* of Go's time.Parse: "2006" year, "01" month, "02" day, "15" hour,
\* "04" minute, "05" second, "Z07:00" zone; anything else is literal text.
formats ==
  << <<"2006", "-", "01", "-", "02">>,
     <<"2006", "-", "01", "-", "02", "T", "15", ":", "04", ":", "05", "Z07:00">>,
     <<"2006", "-", "01", "-", "02", "T", "15", ":", "04", ":", "05", "Z">>,
     <<"2006", "-", "01", "-", "02", "T", "15", ":", "04", ":", "05">>,
     <<"2006", "-", "01", "-", "02", " ", "15", ":", "04", ":", "05">>,
     <<"01", "/", "02", "/", "2006">>,
     <<"02", "/", "01", "/", "2006">> >>

ParseStart(s) ==
  [ok |-> TRUE, rest |-> s, year |-> 0, month |-> 1, day |-> 1,
   hour |-> 0, min |-> 0, sec |-> 0, off |-> 0]

\* One layout element of time.Parse consumed from the value.
ParseStep(p, elem) ==
  IF ~p.ok THEN p
  ELSE IF elem \in {"2006", "01", "02", "15", "04", "05"}
  THEN LET w   == IF elem = "2006" THEN 4 ELSE 2
           txt == SubSeq(p.rest, 1, w)
       IN  IF Len(p.rest) < w \/ ~IsNum(txt) THEN [p EXCEPT !.ok = FALSE]
           ELSE LET n    == Atoi(txt)
                    next == [p EXCEPT !.rest = SubSeq(p.rest, w + 1, Len(p.rest))]
                IN  CASE elem = "2006" -> [next EXCEPT !.year = n]
                      [] elem = "01" -> [next EXCEPT !.month = n, !.ok = n \in 1..12]
                      [] elem = "02" -> [next EXCEPT !.day = n]
                      [] elem = "15" -> [next EXCEPT !.hour = n, !.ok = n < 24]
                      [] elem = "04" -> [next EXCEPT !.min = n, !.ok = n < 60]
                      [] elem = "05" -> [next EXCEPT !.sec = n, !.ok = n < 60]
  ELSE IF elem = "Z07:00"
  THEN IF HasPrefix(p.rest, "Z")
       THEN [p EXCEPT !.rest = SubSeq(p.rest, 2, Len(p.rest))]
       ELSE LET sign == SubSeq(p.rest, 1, 1)
                hh   == SubSeq(p.rest, 2, 3)
                mm   == SubSeq(p.rest, 5, 6)
            IN  IF /\ Len(p.rest) >= 6
                   /\ sign \in {"+", "-"}
                   /\ SubSeq(p.rest, 4, 4) = ":"
                   /\ IsNum(hh) /\ IsNum(mm)
                   /\ Atoi(hh) < 24 /\ Atoi(mm) < 60
                THEN [p EXCEPT !.rest = SubSeq(p.rest, 7, Len(p.rest)),
                               !.off = (IF sign = "-" THEN -1 ELSE 1)
                                       * (Atoi(hh) * 3600 + Atoi(mm) * 60)]
                ELSE [p EXCEPT !.ok = FALSE]
  ELSE IF HasPrefix(p.rest, elem)
       THEN [p EXCEPT !.rest = SubSeq(p.rest, Len(elem) + 1, Len(p.rest))]
       ELSE [p EXCEPT !.ok = FALSE]

RECURSIVE ParseElems(_, _)
ParseElems(p, layout) ==
  IF layout = <<>> THEN p
  ELSE ParseElems(ParseStep(p, Head(layout)), Tail(layout))

\* time.Parse(layout, value): [ok, t]
\* The parsed time keeps its wall-clock date, which Format prints.
NoInstant == [d |-> 0, s |-> 0, year |-> 0, month |-> 0, day |-> 0]

TimeOf(p) ==
  IF /\ p.ok
     /\ p.rest = ""
     /\ p.day >= 1 /\ p.day <= DaysIn(p.month, p.year)
  THEN [ok |-> TRUE,
        t  |-> [d |-> Instant(DaysFromCivil(p.year, p.month, p.day),
                              p.hour * 3600 + p.min * 60 + p.sec - p.off).d,
                s |-> Instant(DaysFromCivil(p.year, p.month, p.day),
                              p.hour * 3600 + p.min * 60 + p.sec - p.off).s,
                year |-> p.year, month |-> p.month, day |-> p.day]]
  ELSE [ok |-> FALSE, t |-> NoInstant]

TimeParse(layout, value) == TimeOf(ParseElems(ParseStart(value), layout))

\* Variant of TryFormats in which the last format that parses wins.
RECURSIVE TryFormats_LastWins(_, _)
TryFormats_LastWins(fs, dateStr) ==
  IF fs = <<>> THEN [ok |-> FALSE, t |-> NoInstant]
  ELSE IF TimeParse(fs[Len(fs)], dateStr).ok THEN TimeParse(fs[Len(fs)], dateStr)
  ELSE TryFormats_LastWins(SubSeq(fs, 1, Len(fs) - 1), dateStr)

RECURSIVE TryFormats(_, _)
TryFormats(fs, dateStr) ==
  IF fs = <<>> THEN [ok |-> FALSE, t |-> NoInstant]
  ELSE IF TimeParse(Head(fs), dateStr).ok THEN TimeParse(Head(fs), dateStr)
  ELSE TryFormats(Tail(fs), dateStr)

\* FlexibleDate.UnmarshalYAML on a scalar holding dateStr: [ok, t]
UnmarshalFlexibleDate(dateStr) == TryFormats(formats, TrimSpace(dateStr))

(* ---------------- documents and YAML decoding --------------------------- *)
\* A document text is a sequence of lines; every line is terminated by "\n"
\* except the last one when eol is FALSE.  A line is raw text (the "---"
\* delimiter, a comment, body text), a top-level `key: value` entry of the
\* metadata block with its decoded YAML node, or text that is not valid YAML.
EmptyRunbook == [Variables |-> <<>>, Dashboards |-> <<>>, KnownIssues |-> <<>>]

YNode(tag, s, n, b, list, rb) ==
  [tag |-> tag, s |-> s, n |-> n, b |-> b, list |-> list, rb |-> rb]

YNull       == YNode("null", "", 0, FALSE, <<>>, EmptyRunbook)
YStr(s)     == YNode("str", s, 0, FALSE, <<>>, EmptyRunbook)
YInt(n)     == YNode("int", "", n, FALSE, <<>>, EmptyRunbook)
YBool(b)    == YNode("bool", "", 0, b, <<>>, EmptyRunbook)
YSeq(list)  == YNode("seq", "", 0, FALSE, list, EmptyRunbook)
YMap        == YNode("map", "", 0, FALSE, <<>>, EmptyRunbook)
YRunbook(variables, dashboards, knownIssues) ==
  YNode("runbook", "", 0, FALSE, <<>>,
        [Variables |-> variables, Dashboards |-> dashboards,
         KnownIssues |-> knownIssues])

RunbookVariable(name, description, default) ==
  [Name |-> name, Description |-> description, Default |-> default]
RunbookDashboard(name, link) == [Name |-> name, Link |-> link]
RunbookKnownIssue(url, description) == [URL |-> url, Description |-> description]

RawLine(text)   == [kind |-> "raw", raw |-> text, key |-> "", val |-> YNull]
Entry(key, val) == [kind |-> "entry", raw |-> "", key |-> key, val |-> val]
BadYaml         == [kind |-> "bad", raw |-> "", key |-> "", val |-> YNull]

Text(lines, eol) == [lines |-> lines, eol |-> eol]

\* strings.HasSuffix(content, "\n")
EndsWithNewline(content) == content.lines # <<>> /\ content.eol

\* strings.Count(content, "\n")
CountNewlines(content) ==
  IF content.lines = <<>> THEN 0
  ELSE IF content.eol THEN Len(content.lines) ELSE Len(content.lines) - 1

\* the matches of the regular expression (?m)^---\n : the terminated lines
\* that are exactly "---", by line number
DelimiterMatches(content) ==
  {i \in 1..Len(content.lines) :
     /\ content.lines[i].kind = "raw"
     /\ content.lines[i].raw = "---"
     /\ (i < Len(content.lines) \/ content.eol)}

Min(S) == CHOOSE x \in S : \A y \in S : x <= y

RECURSIVE Itoa(_)
Itoa(n) ==
  IF n < 0 THEN "-" \o Itoa(0 - n)
  ELSE IF n < 10 THEN SubSeq("0123456789", n + 1, n + 1)
  ELSE Itoa(n \div 10) \o SubSeq("0123456789", (n % 10) + 1, (n % 10) + 1)

\* The text of a scalar node (yaml.Node.Value)
ScalarText(v) ==
  CASE v.tag = "str"  -> v.s
    [] v.tag = "int"  -> Itoa(v.n)
    [] v.tag = "bool" -> IF v.b THEN "true" ELSE "false"
    [] OTHER -> ""

IsScalar(v) == v.tag \in {"str", "int", "bool"}

EntryKeys(block) == {block[i].key : i \in {j \in 1..Len(block) : block[j].kind = "entry"}}

\* yaml.v3 rejects text that is not YAML, a non-mapping document and a
\* mapping with a repeated key; comments and blank lines are skipped.
YamlSyntaxError(block) ==
  \/ \E i \in 1..Len(block) : block[i].kind = "bad"
  \/ \E i \in 1..Len(block) :
       /\ block[i].kind = "raw"
       /\ ~(block[i].raw = "" \/ HasPrefix(block[i].raw, "#"))
  \/ \E i, j \in 1..Len(block) :
       /\ i < j
       /\ block[i].kind = "entry" /\ block[j].kind = "entry"
       /\ block[i].key = block[j].key

\* the node of a top-level key, null when the key is absent
Lookup(block, key) ==
  IF key \in EntryKeys(block)
  THEN block[CHOOSE i \in 1..Len(block) :
               block[i].kind = "entry" /\ block[i].key = key].val
  ELSE YNull

\* yaml.Unmarshal into map[string]interface{} (validateUnknownAttributes)
UnmarshalGeneric(block) ==
  [err |-> YamlSyntaxError(block), keys |-> EntryKeys(block)]

\* Decoding of one node into a field of the given Go type: ok is FALSE on a
\* yaml.TypeError.
StringOk(v) == v.tag = "null" \/ IsScalar(v)
SliceOk(v)  == v.tag \in {"null", "seq"}
IntOk(v)    == v.tag \in {"null", "int"}
BoolOk(v)   == v.tag \in {"null", "bool"}
DateOk(v)   == v.tag = "null" \/ (IsScalar(v) /\ UnmarshalFlexibleDate(ScalarText(v)).ok)
RunbookOk(v) == v.tag \in {"null", "runbook"}

\* The FrontMatter struct (types.go), fields used by the validator.  A
\* pointer field is [set, ...] with set = FALSE for nil.
UnmarshalFrontMatter(block) ==
  LET f(key) == Lookup(block, key)
      err == \/ YamlSyntaxError(block)
             \/ ~StringOk(f("title")) \/ ~StringOk(f("description"))
             \/ ~StringOk(f("linkTitle")) \/ ~StringOk(f("layout"))
             \/ ~SliceOk(f("owner")) \/ ~SliceOk(f("user_questions"))
             \/ ~IntOk(f("weight")) \/ ~IntOk(f("expiration_in_days"))
             \/ ~BoolOk(f("toc_hide"))
             \/ ~DateOk(f("last_review_date"))
             \/ ~RunbookOk(f("runbook"))
  IN  [err |-> err,
       fm  |-> [Title            |-> ScalarText(f("title")),
                Description      |-> ScalarText(f("description")),
                LinkTitle        |-> ScalarText(f("linkTitle")),
                Owner            |-> f("owner").list,
                LastReviewDate   |->
                   [set  |-> f("last_review_date").tag # "null",
                    Time |-> UnmarshalFlexibleDate(ScalarText(f("last_review_date"))).t],
                UserQuestions    |-> f("user_questions").list,
                Weight           |-> [set |-> f("weight").tag # "null",
                                      val |-> f("weight").n],
                Menu             |-> f("menu").tag # "null",
                ExpirationInDays |-> [set |-> f("expiration_in_days").tag # "null",
                                      val |-> f("expiration_in_days").n],
                Layout           |-> ScalarText(f("layout")),
                TocHide          |-> f("toc_hide").b,
                Runbook          |-> [set         |-> f("runbook").tag # "null",
                                      Variables   |-> f("runbook").rb.Variables,
                                      Dashboards  |-> f("runbook").rb.Dashboards,
                                      KnownIssues |-> f("runbook").rb.KnownIssues]]]

\* what parseFrontMatter returns when it returns no FrontMatter
NilFrontMatter(err, numLines) ==
  [isNil |-> TRUE, err |-> err, fm |-> UnmarshalFrontMatter(<<>>).fm,
   fmString |-> <<>>, numLines |-> numLines]

\* what parseFrontMatter returns once the block is cut out and decoded
Decoded(fmString, decoded) ==
  IF decoded.err
  THEN NilFrontMatter(TRUE, 1 + Len(fmString))
  ELSE [isNil |-> FALSE, err |-> FALSE, fm |-> decoded.fm,
        fmString |-> fmString, numLines |-> 1 + Len(fmString)]

\* the lines between the first two delimiter lines
Between(content, first, matches) ==
  SubSeq(content.lines, first + 1, Min(matches \ {first}) - 1)

\* Variant of parseFrontMatter that takes a single delimiter line as the
\* start of a block running to the end of the text.
parseFrontMatter_OneDelimiter(content) ==
  IF Cardinality(DelimiterMatches(content)) < 1 THEN NilFrontMatter(FALSE, 0)
  ELSE IF Cardinality(DelimiterMatches(content)) < 2
  THEN Decoded(SubSeq(content.lines, Min(DelimiterMatches(content)) + 1,
                      Len(content.lines)),
               UnmarshalFrontMatter(SubSeq(content.lines,
                                           Min(DelimiterMatches(content)) + 1,
                                           Len(content.lines))))
  ELSE Decoded(Between(content, Min(DelimiterMatches(content)), DelimiterMatches(content)),
               UnmarshalFrontMatter(Between(content, Min(DelimiterMatches(content)),
                                            DelimiterMatches(content))))

\* Validator.parseFrontMatter: [isNil, err, fm, fmString, numLines]
parseFrontMatter(content) ==
  IF Cardinality(DelimiterMatches(content)) < 1 THEN NilFrontMatter(FALSE, 0)
  ELSE IF Cardinality(DelimiterMatches(content)) < 2 THEN NilFrontMatter(TRUE, 0)
  ELSE Decoded(Between(content, Min(DelimiterMatches(content)), DelimiterMatches(content)),
               UnmarshalFrontMatter(Between(content, Min(DelimiterMatches(content)),
                                            DelimiterMatches(content))))
(* ---------------- the validators (pkg/validator/validator.go) ----------- *)
\* CheckResult; Value is the list of strings it carries: empty when unset,
\* one element for a string value, the owner list for INVALID_OWNER.
CheckResult(check, value, line, title, owner) ==
  [Check |-> check, Value |-> value, Line |-> line, Title |-> title,
   Owner |-> owner]

Finding(check)           == CheckResult(check, <<>>, 0, "", <<>>)
FindingValue(check, val) == CheckResult(check, <<val>>, 0, "", <<>>)

\* `if !v.shouldSkipCheck(filePath, id) { append(...) }`
IfActive(cm, filePath, finding) ==
  IF ~shouldSkipCheck(cm, filePath, finding.Check) THEN <<finding>> ELSE <<>>

\* Variant of UnknownInOrder that reports every key it visits.
RECURSIVE UnknownInOrder_EveryKey(_)
UnknownInOrder_EveryKey(keyOrder) ==
  IF keyOrder = <<>> THEN <<>>
  ELSE <<FindingValue(UnknownAttribute, Head(keyOrder))>>
       \o UnknownInOrder_EveryKey(Tail(keyOrder))

RECURSIVE UnknownInOrder(_)
UnknownInOrder(keyOrder) ==
  IF keyOrder = <<>> THEN <<>>
  ELSE (IF Head(keyOrder) \notin GetValidKeys
        THEN <<FindingValue(UnknownAttribute, Head(keyOrder))>> ELSE <<>>)
       \o UnknownInOrder(Tail(keyOrder))

\* Variant of validateUnknownAttributes that stops at the first unknown key.
validateUnknownAttributes_FirstOnly(fmString, keyOrder) ==
  IF UnmarshalGeneric(fmString).err THEN <<>>
  ELSE IF UnknownInOrder(keyOrder) = <<>> THEN <<>>
  ELSE <<Head(UnknownInOrder(keyOrder))>>

\* validateUnknownAttributes; keyOrder is the order in which `range generic`
\* visits the keys of the map.
validateUnknownAttributes(fmString, keyOrder) ==
  IF UnmarshalGeneric(fmString).err THEN <<>>
  ELSE UnknownInOrder(keyOrder)

\* Variant of validateTitle with the boundaries 5 and 100 excluded.
validateTitle_Exclusive(fm) ==
  IF fm.Title = "" THEN <<Finding(NoTitle)>>
  ELSE (IF Len(fm.Title) <= 5 THEN <<FindingValue(ShortTitle, fm.Title)>> ELSE <<>>)
       \o (IF Len(fm.Title) >= 100 THEN <<FindingValue(LongTitle, fm.Title)>> ELSE <<>>)

validateTitle(fm) ==
  IF fm.Title = "" THEN <<Finding(NoTitle)>>
  ELSE (IF Len(fm.Title) < 5 THEN <<FindingValue(ShortTitle, fm.Title)>> ELSE <<>>)
       \o (IF Len(fm.Title) > 100 THEN <<FindingValue(LongTitle, fm.Title)>> ELSE <<>>)

\* Variant of validateDescription that applies the length and full-stop
\* tests to an empty description as well.
validateDescription_NoElse(cm, fm, filePath) ==
  (IF fm.Description = ""
   THEN IfActive(cm, filePath, Finding(NoDescription))
   ELSE <<>>)
  \o (IF Contains(TrimSpace(fm.Description), "\n")
      THEN IfActive(cm, filePath, FindingValue(InvalidDescription, fm.Description))
      ELSE (IF Len(fm.Description) < 50
            THEN IfActive(cm, filePath, FindingValue(ShortDescription, fm.Description))
            ELSE <<>>)
           \o (IF Len(fm.Description) > 300
               THEN IfActive(cm, filePath, FindingValue(LongDescription, fm.Description))
               ELSE <<>>)
           \o (IF ~HasSuffix(fm.Description, ".")
               THEN IfActive(cm, filePath,
                             FindingValue(NoFullStopDescription, fm.Description))
               ELSE <<>>))

validateDescription(cm, fm, filePath) ==
  IF fm.Description = ""
  THEN IfActive(cm, filePath, Finding(NoDescription))
  ELSE IF Contains(TrimSpace(fm.Description), "\n")
  THEN IfActive(cm, filePath, FindingValue(InvalidDescription, fm.Description))
  ELSE (IF Len(fm.Description) < 50
        THEN IfActive(cm, filePath, FindingValue(ShortDescription, fm.Description))
        ELSE <<>>)
       \o (IF Len(fm.Description) > 300
           THEN IfActive(cm, filePath, FindingValue(LongDescription, fm.Description))
           ELSE <<>>)
       \o (IF ~HasSuffix(fm.Description, ".")
           THEN IfActive(cm, filePath, FindingValue(NoFullStopDescription, fm.Description))
           ELSE <<>>)

validateLinkTitle(cm, fm, filePath) ==
  LET linkTitle == IF fm.LinkTitle = "" THEN fm.Title ELSE fm.LinkTitle
  IN  IF Len(linkTitle) > 40 /\ ~shouldSkipCheck(cm, filePath, LongLinkTitle)
      THEN <<FindingValue(LongLinkTitle, linkTitle)>> ELSE <<>>

\* Variant of validateMenuAndWeight that asks for a linkTitle whenever a menu
\* is declared, whatever the title.
validateMenuAndWeight_LinkTitleOnly(fm) ==
  IF fm.Menu
  THEN (IF fm.LinkTitle = "" THEN <<Finding(NoLinkTitle)>> ELSE <<>>)
       \o (IF ~fm.Weight.set THEN <<Finding(NoWeight)>> ELSE <<>>)
  ELSE <<>>

validateMenuAndWeight(fm) ==
  IF fm.Menu
  THEN (IF fm.LinkTitle = "" /\ fm.Title = "" THEN <<Finding(NoLinkTitle)>> ELSE <<>>)
       \o (IF ~fm.Weight.set THEN <<Finding(NoWeight)>> ELSE <<>>)
  ELSE <<>>

OwnerPrefix == "https://github.com/orgs/giantswarm/teams/"

\* Variant of validateOwner that reports each entry without the prefix, with
\* the entry as value.
validateOwner_PerEntry(cm, fm, filePath) ==
  IF Len(fm.Owner) = 0
  THEN IfActive(cm, filePath, Finding(NoOwner))
  ELSE [i \in 1..Cardinality({j \in 1..Len(fm.Owner) : ~HasPrefix(fm.Owner[j], OwnerPrefix)}) |->
          CheckResult(InvalidOwner,
                      <<SelectSeq(fm.Owner, LAMBDA o : ~HasPrefix(o, OwnerPrefix))[i]>>,
                      0, "", <<>>)]

validateOwner(cm, fm, filePath) ==
  IF Len(fm.Owner) = 0
  THEN IfActive(cm, filePath, Finding(NoOwner))
  ELSE IF \E i \in 1..Len(fm.Owner) : ~HasPrefix(fm.Owner[i], OwnerPrefix)
  THEN <<CheckResult(InvalidOwner, fm.Owner, 0, "", <<>>)>>
  ELSE <<>>

RECURSIVE QuestionFindings(_)
QuestionFindings(questions) ==
  IF questions = <<>> THEN <<>>
  ELSE LET question == Head(questions)
       IN  (IF Len(question) > 100
            THEN <<FindingValue(LongUserQuestion, question)>> ELSE <<>>)
           \o (IF ~HasSuffix(question, "?")
               THEN <<FindingValue(NoQuestionMark, question)>> ELSE <<>>)
           \o QuestionFindings(Tail(questions))

\* Variant of validateUserQuestions without the _index.md exception.
validateUserQuestions_NoIndexException(cm, fm, filePath) ==
  IF Len(fm.UserQuestions) = 0
  THEN IfActive(cm, filePath, Finding(NoUserQuestions))
  ELSE QuestionFindings(fm.UserQuestions)

validateUserQuestions(cm, fm, filePath) ==
  IF Len(fm.UserQuestions) = 0
  THEN (IF ~shouldSkipCheck(cm, filePath, NoUserQuestions)
           /\ ~HasSuffix(filePath, "_index.md")
        THEN <<Finding(NoUserQuestions)>> ELSE <<>>)
  ELSE QuestionFindings(fm.UserQuestions)

Pad(n, width) ==
  LET txt == Itoa(n)
  IN  SubSeq("0000", 1, width - Len(txt)) \o txt

\* Time.Format("2006-01-02")
FormatDate(t) == Pad(t.year, 4) \o "-" \o Pad(t.month, 2) \o "-" \o Pad(t.day, 2)

DefaultExpirationDays == 365

\* Variant of validateLastReviewDate that checks staleness also for a date in
\* the future.
validateLastReviewDate_NoElse(cm, fm, filePath, today) ==
  IF ~fm.LastReviewDate.set
  THEN IfActive(cm, filePath, Finding(NoLastReviewDate))
  ELSE (IF After(fm.LastReviewDate.Time, today)
        THEN <<CheckResult(InvalidLastReviewDate, <<FormatDate(fm.LastReviewDate.Time)>>,
                           0, fm.Title, fm.Owner)>>
        ELSE <<>>)
       \o (IF /\ ~shouldSkipCheck(cm, filePath, ReviewTooLongAgo)
              /\ SignedGreater(Sub(today, fm.LastReviewDate.Time),
                               ExpirationDuration(IF fm.ExpirationInDays.set
                                                  THEN fm.ExpirationInDays.val
                                                  ELSE DefaultExpirationDays))
           THEN <<CheckResult(ReviewTooLongAgo, <<FormatDate(fm.LastReviewDate.Time)>>,
                              0, fm.Title, fm.Owner)>>
           ELSE <<>>)

\* validateLastReviewDate; today is the value time.Now() returns in the call.
validateLastReviewDate(cm, fm, filePath, today) ==
  IF ~fm.LastReviewDate.set
  THEN IfActive(cm, filePath, Finding(NoLastReviewDate))
  ELSE IF After(fm.LastReviewDate.Time, today)
  THEN <<CheckResult(InvalidLastReviewDate, <<FormatDate(fm.LastReviewDate.Time)>>,
                     0, fm.Title, fm.Owner)>>
  ELSE IF ~shouldSkipCheck(cm, filePath, ReviewTooLongAgo)
  THEN LET expiration == IF fm.ExpirationInDays.set
                         THEN fm.ExpirationInDays.val
                         ELSE DefaultExpirationDays
       IN  IF SignedGreater(Sub(today, fm.LastReviewDate.Time),
                            ExpirationDuration(expiration))
           THEN <<CheckResult(ReviewTooLongAgo, <<FormatDate(fm.LastReviewDate.Time)>>,
                              0, fm.Title, fm.Owner)>>
           ELSE <<>>
  ELSE <<>>

(* ---------------- runbook validation ------------------------------------ *)
UpperChars ==
  {"A", "B", "C", "D", "E", "F", "G", "H", "I", "J", "K", "L", "M", "N", "O",
   "P", "Q", "R", "S", "T", "U", "V", "W", "X", "Y", "Z", "_"}

\* regexp ^[A-Z_]+$
MatchesVariableName(name) ==
  name # "" /\ \A i \in 1..Len(name) : SubSeq(name, i, i) \in UpperChars

\* Variant of VariableFindings that does not remember the names it has seen.
RECURSIVE VariableFindings_NoDuplicates(_, _, _, _, _)
VariableFindings_NoDuplicates(cm, filePath, variables, i, variableNames) ==
  IF i > Len(variables) THEN <<>>
  ELSE (IF variables[i].Name = ""
        THEN IfActive(cm, filePath,
                      FindingValue(RunbookVariableWithoutName,
                                   "Variable at index " \o Itoa(i - 1)))
        ELSE IF ~MatchesVariableName(variables[i].Name)
        THEN IfActive(cm, filePath,
                      FindingValue(InvalidRunbookVariableName, variables[i].Name))
        ELSE <<>>)
       \o VariableFindings_NoDuplicates(cm, filePath, variables, i + 1, variableNames)

RECURSIVE VariableFindings(_, _, _, _, _)
VariableFindings(cm, filePath, variables, i, variableNames) ==
  IF i > Len(variables) THEN <<>>
  ELSE LET variable == variables[i]
       IN  IF variable.Name = ""
           THEN IfActive(cm, filePath,
                         FindingValue(RunbookVariableWithoutName,
                                      "Variable at index " \o Itoa(i - 1)))
                \o VariableFindings(cm, filePath, variables, i + 1, variableNames)
           ELSE (IF ~MatchesVariableName(variable.Name)
                 THEN IfActive(cm, filePath,
                               FindingValue(InvalidRunbookVariableName, variable.Name))
                 ELSE <<>>)
                \o (IF variable.Name \in variableNames
                    THEN IfActive(cm, filePath,
                                  FindingValue(InvalidRunbookVariableName,
                                               "Duplicate variable name: " \o variable.Name))
                    ELSE <<>>)
                \o VariableFindings(cm, filePath, variables, i + 1,
                                    variableNames \cup {variable.Name})

validateRunbookVariables(cm, runbook, filePath) ==
  IF Len(runbook.Variables) = 0 THEN <<>>
  ELSE VariableFindings(cm, filePath, runbook.Variables, 1, {})

\* length of the longest prefix of s made of [A-Z_]
RECURSIVE UpperRun(_)
UpperRun(s) ==
  IF s # "" /\ SubSeq(s, 1, 1) \in UpperChars
  THEN 1 + UpperRun(SubSeq(s, 2, Len(s))) ELSE 0

\* the submatches of regexp \$([A-Z_]+) in the link, left to right
RECURSIVE FindVariables(_)
FindVariables(link) ==
  IF link = "" THEN <<>>
  ELSE LET rest == SubSeq(link, 2, Len(link))
           n    == UpperRun(rest)
       IN  IF SubSeq(link, 1, 1) = "$" /\ n > 0
           THEN <<SubSeq(rest, 1, n)>> \o FindVariables(SubSeq(rest, n + 1, Len(rest)))
           ELSE FindVariables(rest)

\* strings.ReplaceAll for a non-empty old
RECURSIVE ReplaceAll(_, _, _)
ReplaceAll(s, old, new) ==
  IF s = "" THEN ""
  ELSE IF HasPrefix(s, old)
  THEN new \o ReplaceAll(SubSeq(s, Len(old) + 1, Len(s)), old, new)
  ELSE SubSeq(s, 1, 1) \o ReplaceAll(SubSeq(s, 2, Len(s)), old, new)

\* `for variableName := range variableNames { testLink = ReplaceAll(...) }`
\* with the map visited in the order nameOrder
RECURSIVE ReplaceVariables(_, _)
ReplaceVariables(testLink, nameOrder) ==
  IF nameOrder = <<>> THEN testLink
  ELSE ReplaceVariables(ReplaceAll(testLink, "$" \o Head(nameOrder), "test"),
                        Tail(nameOrder))

\* Variant of UndefinedVariableFindings that stops at the first undefined
\* variable of a link.
RECURSIVE UndefinedVariableFindings_FirstOnly(_, _, _, _, _)
UndefinedVariableFindings_FirstOnly(cm, filePath, link, matches, variableNames) ==
  IF matches = <<>> THEN <<>>
  ELSE IF Head(matches) \notin variableNames
  THEN IfActive(cm, filePath,
                FindingValue(InvalidRunbookDashboardLink,
                             "Undefined variable $" \o Head(matches)
                             \o " in link: " \o link))
  ELSE UndefinedVariableFindings_FirstOnly(cm, filePath, link, Tail(matches),
                                           variableNames)

RECURSIVE UndefinedVariableFindings(_, _, _, _, _)
UndefinedVariableFindings(cm, filePath, link, matches, variableNames) ==
  IF matches = <<>> THEN <<>>
  ELSE (IF Head(matches) \notin variableNames
        THEN IfActive(cm, filePath,
                      FindingValue(InvalidRunbookDashboardLink,
                                   "Undefined variable $" \o Head(matches)
                                   \o " in link: " \o link))
        ELSE <<>>)
       \o UndefinedVariableFindings(cm, filePath, link, Tail(matches), variableNames)

\* Variant of validateRunbookDashboardLink that accepts https:// only.
validateRunbookDashboardLink_HttpsOnly(cm, link, variableNames, filePath, nameOrder) ==
  LET testLink == ReplaceVariables(link, nameOrder)
  IN  UndefinedVariableFindings(cm, filePath, link, FindVariables(link), variableNames)
      \o (IF ~HasPrefix(testLink, "https://")
          THEN IfActive(cm, filePath,
                        FindingValue(InvalidRunbookDashboardLink,
                                     "Invalid URL format: " \o link))
          ELSE <<>>)

validateRunbookDashboardLink(cm, link, variableNames, filePath, nameOrder) ==
  LET testLink == ReplaceVariables(link, nameOrder)
  IN  UndefinedVariableFindings(cm, filePath, link, FindVariables(link), variableNames)
      \o (IF ~HasPrefix(testLink, "http://") /\ ~HasPrefix(testLink, "https://")
          THEN IfActive(cm, filePath,
                        FindingValue(InvalidRunbookDashboardLink,
                                     "Invalid URL format: " \o link))
          ELSE <<>>)

\* the names the dashboards loop collects from the variables
DeclaredVariableNames(runbook) ==
  {runbook.Variables[i].Name : i \in {j \in 1..Len(runbook.Variables) :
                                         runbook.Variables[j].Name # ""}}

RECURSIVE DashboardFindings(_, _, _, _, _, _)
DashboardFindings(cm, filePath, dashboards, i, variableNames, nameOrders) ==
  IF i > Len(dashboards) THEN <<>>
  ELSE LET dashboard == dashboards[i]
       IN  (IF dashboard.Name = "" \/ dashboard.Link = ""
            THEN IfActive(cm, filePath,
                          FindingValue(InvalidRunbookDashboard,
                                       "Dashboard at index " \o Itoa(i - 1)
                                       \o " missing name or link"))
            ELSE validateRunbookDashboardLink(cm, dashboard.Link, variableNames,
                                              filePath, nameOrders[i]))
           \o DashboardFindings(cm, filePath, dashboards, i + 1, variableNames,
                                nameOrders)

\* nameOrders[i] is the map iteration order met while checking dashboard i
validateRunbookDashboards(cm, runbook, filePath, nameOrders) ==
  IF Len(runbook.Dashboards) = 0 THEN <<>>
  ELSE DashboardFindings(cm, filePath, runbook.Dashboards, 1,
                         DeclaredVariableNames(runbook), nameOrders)

RECURSIVE KnownIssueFindings(_, _, _, _)
KnownIssueFindings(cm, filePath, issues, i) ==
  IF i > Len(issues) THEN <<>>
  ELSE LET issue == issues[i]
       IN  (IF issue.URL = ""
            THEN IfActive(cm, filePath,
                          FindingValue(InvalidRunbookKnownIssue,
                                       "Known issue at index " \o Itoa(i - 1)
                                       \o " missing URL"))
            ELSE IF ~HasPrefix(issue.URL, "http://") /\ ~HasPrefix(issue.URL, "https://")
            THEN IfActive(cm, filePath,
                          FindingValue(InvalidRunbookKnownIssueURL, issue.URL))
            ELSE <<>>)
           \o KnownIssueFindings(cm, filePath, issues, i + 1)

validateRunbookKnownIssues(cm, runbook, filePath) ==
  IF Len(runbook.KnownIssues) = 0 THEN <<>>
  ELSE KnownIssueFindings(cm, filePath, runbook.KnownIssues, 1)

\* Variant of validateRunbook that validates the lists of a runbook
\* declaration whatever the layout.
validateRunbook_ListsWithoutLayout(cm, fm, filePath, nameOrders) ==
  (IF fm.Layout = "runbook"
   THEN (IF ~fm.TocHide THEN IfActive(cm, filePath, Finding(RunbookAppearsInMenu))
         ELSE <<>>)
   ELSE IF fm.Runbook.set
   THEN IfActive(cm, filePath, Finding(RunbookLayoutNotSet))
   ELSE <<>>)
  \o (IF ~fm.Runbook.set THEN <<>>
      ELSE validateRunbookVariables(cm, fm.Runbook, filePath)
           \o validateRunbookDashboards(cm, fm.Runbook, filePath, nameOrders)
           \o validateRunbookKnownIssues(cm, fm.Runbook, filePath))

validateRunbook(cm, fm, filePath, nameOrders) ==
  IF fm.Layout = "runbook"
  THEN (IF ~fm.TocHide THEN IfActive(cm, filePath, Finding(RunbookAppearsInMenu))
        ELSE <<>>)
       \o (IF ~fm.Runbook.set THEN <<>>
           ELSE validateRunbookVariables(cm, fm.Runbook, filePath)
                \o validateRunbookDashboards(cm, fm.Runbook, filePath, nameOrders)
                \o validateRunbookKnownIssues(cm, fm.Runbook, filePath))
  ELSE IF fm.Runbook.set
  THEN IfActive(cm, filePath, Finding(RunbookLayoutNotSet))
  ELSE <<>>

(* ---------------- the engine -------------------------------------------- *)
validateAll(cm, fm, fmString, filePath, today, keyOrder, nameOrders) ==
  validateUnknownAttributes(fmString, keyOrder)
  \o validateTitle(fm)
  \o validateDescription(cm, fm, filePath)
  \o validateLinkTitle(cm, fm, filePath)
  \o validateMenuAndWeight(fm)
  \o validateOwner(cm, fm, filePath)
  \o validateUserQuestions(cm, fm, filePath)
  \o validateLastReviewDate(cm, fm, filePath, today)
  \o validateRunbook(cm, fm, filePath, nameOrders)

ValidationResult(numFrontMatterLines, checks) ==
  [NumFrontMatterLines |-> numFrontMatterLines, Checks |-> checks]

\* Variant of ValidateFile that goes on after the trailing-newline finding
\* instead of returning.
ValidateFile_NoEarlyReturn(cm, content, filePath, today, keyOrder, nameOrders) ==
  LET first == IF ~EndsWithNewline(content)
               THEN IfActive(cm, filePath,
                             CheckResult(NoTrailingNewline, <<>>,
                                         1 + CountNewlines(content), "", <<>>))
               ELSE <<>>
  IN  IF parseFrontMatter(content).err \/ parseFrontMatter(content).isNil
      THEN ValidationResult(0,
             first \o IfActive(cm, filePath,
                               CheckResult(NoFrontMatter, <<>>, 1, "", <<>>)))
      ELSE ValidationResult(parseFrontMatter(content).numLines,
             first \o validateAll(cm, parseFrontMatter(content).fm,
                                  parseFrontMatter(content).fmString, filePath, today,
                                  keyOrder, nameOrders))

\* Validator.ValidateFile.  today, keyOrder and nameOrders are what the call
\* reads from its environment: the clock and the iteration order of Go maps.
ValidateFile(cm, content, filePath, today, keyOrder, nameOrders) ==
  IF ~EndsWithNewline(content)
  THEN ValidationResult(0,
         IfActive(cm, filePath,
                  CheckResult(NoTrailingNewline, <<>>, 1 + CountNewlines(content),
                              "", <<>>)))
  ELSE LET parsed == parseFrontMatter(content)
       IN  IF parsed.err \/ parsed.isNil
           THEN ValidationResult(0,
                  IfActive(cm, filePath, CheckResult(NoFrontMatter, <<>>, 1, "", <<>>)))
           ELSE ValidationResult(parsed.numLines,
                  validateAll(cm, parsed.fm, parsed.fmString, filePath, today,
                              keyOrder, nameOrders))

\* the orders in which a Go map with key set S can be visited
Orders(S) ==
  {o \in [1..Cardinality(S) -> S] : \A i, j \in 1..Cardinality(S) : i # j => o[i] # o[j]}

(* ---------------- inputs of the model ----------------------------------- *)
RECURSIVE Rep(_, _)
Rep(c, n) ==
  IF n = 0 THEN ""
  ELSE IF n % 2 = 0 THEN LET half == Rep(c, n \div 2) IN half \o half
  ELSE c \o Rep(c, n - 1)

Absent == YNode("absent", "", 0, FALSE, <<>>, EmptyRunbook)

FieldKeys ==
  <<"title", "description", "linkTitle", "menu", "weight", "owner",
    "user_questions", "last_review_date", "expiration_in_days", "layout",
    "toc_hide", "runbook">>

FieldSet == {FieldKeys[i] : i \in 1..Len(FieldKeys)}

RECURSIVE EntriesOf(_, _)
EntriesOf(f, keys) ==
  IF keys = <<>> THEN <<>>
  ELSE (IF f[Head(keys)].tag = "absent" THEN <<>>
        ELSE <<Entry(Head(keys), f[Head(keys)])>>)
       \o EntriesOf(f, Tail(keys))

\* a page: the metadata block between two delimiters, then body text
Page(entries) ==
  Text(<<RawLine("---")>> \o entries \o <<RawLine("---"), RawLine(""), RawLine("# Body")>>,
       TRUE)

PageOf(f) == Page(EntriesOf(f, FieldKeys))

GoodOwner == OwnerPrefix \o "team-a"
GoodDescription == Rep("d", 49) \o "."

BareFields == [k \in FieldSet |-> Absent]

GoodFields ==
  [k \in FieldSet |->
     CASE k = "title"            -> YStr("Valid title")
       [] k = "description"      -> YStr(GoodDescription)
       [] k = "owner"            -> YSeq(<<GoodOwner>>)
       [] k = "user_questions"   -> YSeq(<<"What is this?">>)
       [] k = "last_review_date" -> YStr("2025-11-14")
       [] OTHER                  -> Absent]

Bases == {BareFields, GoodFields}

TitleNodes ==
  {Absent, YStr(""), YStr(Rep("t", 4)), YStr(Rep("t", 5)), YStr(Rep("t", 41)),
   YStr(Rep("t", 100)), YStr(Rep("t", 101)), YSeq(<<"a">>)}

DescriptionNodes ==
  {Absent, YStr("Short."), YStr(Rep("d", 50)), YStr(Rep("d", 300) \o "."),
   YStr("first line\nsecond line."), YStr(GoodDescription \o "\n"),
   YStr("\n" \o Rep("d", 10)), YStr(Rep("d", 30) \o "\n" \o Rep("d", 30) \o ".")}

DateNodes ==
  {Absent, YStr("2025-11-16"), YStr("2025-11-14"), YStr("2024-10-11"),
   YStr("2024-11-16"), YStr("1700-01-01"), YStr("2025-11-15T18:00:00Z"),
   YStr("invalid-date")}

ExpirationNodes ==
  {Absent, YInt(500), YInt(400), YInt(0), YInt(-1), YInt(106751), YInt(106752)}

OwnerNodes ==
  {Absent, YSeq(<<>>), YSeq(<<GoodOwner>>), YSeq(<<"team-a">>),
   YSeq(<<GoodOwner, "team-b", "team-c">>)}

QuestionNodes ==
  {Absent, YSeq(<<"Why?">>), YSeq(<<"No mark">>),
   YSeq(<<Rep("q", 100) \o "?", "Fine?", Rep("q", 101)>>)}

TitleDocs == {PageOf([b EXCEPT !["title"] = n]) : b \in Bases, n \in TitleNodes}

DescriptionDocs ==
  {PageOf([b EXCEPT !["description"] = n]) : b \in Bases, n \in DescriptionNodes}

DateDocs ==
  {PageOf([GoodFields EXCEPT !["last_review_date"] = d, !["expiration_in_days"] = e]) :
     d \in DateNodes, e \in ExpirationNodes}

\* dates in each accepted format, in two formats at once, and in none
FormatNodes ==
  {YStr("12/11/2025"), YStr("13/11/2025"), YStr("2025-11-14T10:00:00Z"),
   YStr("2025-11-14T10:00:00+02:00"), YStr("2025-11-14T10:00:00"),
   YStr("2025-11-14 10:00:00"), YStr(" 2025-11-14 "), YStr("2025-02-30"),
   YInt(20251116)}

FormatDocs == {PageOf([GoodFields EXCEPT !["last_review_date"] = d]) : d \in FormatNodes}

OwnerDocs == {PageOf([GoodFields EXCEPT !["owner"] = n]) : n \in OwnerNodes}

QuestionDocs == {PageOf([GoodFields EXCEPT !["user_questions"] = n]) : n \in QuestionNodes}

MenuDocs ==
  {PageOf([b EXCEPT !["menu"] = m, !["weight"] = w, !["linkTitle"] = l]) :
     b \in Bases, m \in {Absent, YMap}, w \in {Absent, YInt(10)},
     l \in {Absent, YStr(Rep("l", 41))}}

UnknownKeyDocs ==
  {Page(EntriesOf(GoodFields, FieldKeys) \o extra) :
     extra \in {<<Entry("foo", YStr("x"))>>,
                <<Entry("foo", YStr("x")), Entry("bar", YInt(1))>>,
                <<Entry("date", YStr("2025-01-01")), Entry("foo", YNull)>>}}

GoodVariables ==
  <<RunbookVariable("INSTALLATION", "Installation name", ""),
    RunbookVariable("CLUSTER", "", "default")>>

RunbookNodes ==
  {Absent,
   YRunbook(GoodVariables,
            <<RunbookDashboard("Overview", "https://host/d/$INSTALLATION/$CLUSTER")>>,
            <<RunbookKnownIssue("https://host/issues/1", "")>>),
   YRunbook(<<RunbookVariable("", "unnamed", ""), RunbookVariable("lower", "", ""),
              RunbookVariable("INSTALLATION", "", ""),
              RunbookVariable("INSTALLATION", "", ""),
              RunbookVariable("lower", "", "")>>, <<>>, <<>>),
   YRunbook(GoodVariables,
            <<RunbookDashboard("", "ftp://host/$MISSING"),
              RunbookDashboard("Undefined", "https://host/$UNDEFINED"),
              RunbookDashboard("Two", "https://host/$OTHER/$CLUSTER/$OTHER"),
              RunbookDashboard("Relative", "$INSTALLATION/x")>>, <<>>),
   YRunbook(<<RunbookVariable("A", "", ""), RunbookVariable("AB", "", "")>>,
            <<RunbookDashboard("Prefix", "$AB//x")>>, <<>>),
   YRunbook(<<>>, <<>>,
            <<RunbookKnownIssue("", "no url"), RunbookKnownIssue("ftp://host/x", "")>>),
   YRunbook(<<>>, <<RunbookDashboard("Test Dashboard", "https://example.com")>>,
            <<RunbookKnownIssue("https://host/issues/1", "")>>)}

RunbookDocs ==
  {PageOf([GoodFields EXCEPT !["layout"] = l, !["toc_hide"] = t, !["runbook"] = r]) :
     l \in {Absent, YStr("runbook")}, t \in {Absent, YBool(TRUE)}, r \in RunbookNodes}

GoodEntries == EntriesOf(GoodFields, FieldKeys)

BadEntries == <<Entry("title", YStr("Bad")), Entry("foo", YStr("x"))>>

\* texts without a final line terminator
UnterminatedDocs ==
  {Text(<<>>, FALSE),
   Text(<<RawLine("# Just a header")>>, FALSE),
   Text(<<RawLine("---")>>, FALSE),
   Text(<<RawLine("---"), RawLine("---")>>, FALSE),
   Text(<<RawLine("---")>> \o GoodEntries \o <<RawLine("---")>>, FALSE),
   Text(<<RawLine("---")>> \o GoodEntries \o <<RawLine("---"), RawLine("# Body")>>, FALSE),
   Text(<<RawLine("---")>> \o BadEntries \o <<RawLine("---"), RawLine("# Body")>>, FALSE),
   Text(<<RawLine("---"), BadYaml, RawLine("---"), RawLine("text")>>, FALSE)}

\* terminated texts with no delimiter line or exactly one
NoBlockDocs ==
  {Text(<<RawLine("")>>, TRUE),
   Text(<<RawLine("# Just a markdown file without frontmatter")>>, TRUE),
   Text(<<RawLine("----"), RawLine("--- "), RawLine(" ---")>>, TRUE),
   Text(<<RawLine("---")>>, TRUE),
   Text(<<RawLine("---")>> \o GoodEntries \o <<RawLine("# Body")>>, TRUE),
   Text(<<RawLine("---")>> \o BadEntries \o <<RawLine("----")>>, TRUE),
   Text(GoodEntries \o <<RawLine("---"), RawLine("# Body")>>, TRUE)}

\* terminated texts with two or more delimiter lines
BlockDocs ==
  {Text(<<RawLine("---"), RawLine("---")>>, TRUE),
   Page(BadEntries),
   Page(<<RawLine("# a comment")>> \o GoodEntries),
   Page(<<BadYaml>>),
   Page(GoodEntries \o <<RawLine("stray text")>>),
   Page(GoodEntries \o <<Entry("title", YStr("Twice"))>>),
   Text(<<RawLine("# Heading"), RawLine("---")>> \o BadEntries \o <<RawLine("---")>>, TRUE),
   Text(<<RawLine("---")>> \o BadEntries
        \o <<RawLine("---"), RawLine("text"), RawLine("---"), RawLine("more")>>, TRUE)}

Docs ==
  TitleDocs \cup DescriptionDocs \cup DateDocs \cup OwnerDocs \cup QuestionDocs
  \cup MenuDocs \cup UnknownKeyDocs \cup RunbookDocs \cup UnterminatedDocs
  \cup NoBlockDocs \cup BlockDocs \cup FormatDocs

Paths == {"test.md", "docs/legacy/x.md", "src/content/vintage/_index.md"}

\* README, "Last review date only"
LastReviewedConfig ==
  Config(RuleSet(<<NoFrontMatter, NoTrailingNewline, NoLastReviewDate,
                   ReviewTooLongAgo, InvalidLastReviewDate>>, <<>>),
         <<DirectoryOverride("src/content/vintage/**", <<>>,
                             <<NoLastReviewDate, ReviewTooLongAgo>>)>>)

LegacyDocsConfig ==
  Config(RuleSet(<<NoTitle, NoDescription>>, <<>>),
         <<DirectoryOverride("docs/legacy/**", <<>>, <<NoDescription>>)>>)

ConfigManagers ==
  {DefaultConfigManager, Manager(getDefaultConfig), Manager(LastReviewedConfig),
   Manager(LegacyDocsConfig)}

(* ---------------- the run: read a file, validate it ---------------------- *)
VARIABLES
  validator,      \* the fields of the Validator: checks, validKeys
  calls,          \* the ValidateFile calls in progress, one per thread
  validationMode, \* the --validation flag of the run
  configFile,     \* what the --config path points to when the run starts
  configManager,  \* the ConfigManager of the Validator, fixed at construction
  now,            \* the wall clock
  pc,             \* "start", "read" (a file was read), "done" (it was validated),
                  \* "resolved" (the active checks of a path were resolved)
  filePath,       \* path of the file last read
  content,        \* text of the file last read
  today,          \* the clock value the last ValidateFile call read
  result,         \* the ValidationResult of the last ValidateFile call
  enabledChecks,  \* the active checks resolved for filePath
  prev            \* the preceding call when the same file is validated again

vars == <<validator, calls, validationMode, configFile, configManager, now, pc, filePath, content, today, result,
          enabledChecks, prev>>

\* validation modes (types.go)
ValidateAll            == "all"
ValidateLastReviewDate == "last-reviewed"

\* a Validator built without the command line: no configuration file is read
NoConfigFile == [state |-> "none", config |-> EmptyConfig]

StartTime   == Instant(DaysFromCivil(2025, 11, 15), 43200)
TickSeconds == 43200
MaxTicks    == 2

TicksSince(t) == ((t.d - StartTime.d) * SecondsPerDay + (t.s - StartTime.s)) \div TickSeconds

EmptyResult == ValidationResult(0, <<>>)
NoPrev == [set |-> FALSE, result |-> EmptyResult, today |-> StartTime]

\* validator.New / NewWithConfig: the fields set at construction
NewValidator == [checks |-> GetChecks, validKeys |-> GetValidKeys]

\* the threads that call ValidateFile on the one Validator
Threads == {"t1", "t2"}

\* a thread that is not inside a call
IdleCall ==
  [stage |-> "idle", filePath |-> "", content |-> Text(<<>>, FALSE), keyOrder |-> <<>>,
   nameOrders |-> <<>>, result |-> EmptyResult]

NoCalls == [t \in Threads |-> IdleCall]

Init ==
  /\ validator = NewValidator
  /\ calls = NoCalls
  /\ validationMode = ValidateAll
  /\ configFile = NoConfigFile
  /\ configManager \in ConfigManagers
  /\ now = StartTime
  /\ pc = "start"
  /\ filePath = ""
  /\ content = Text(<<>>, FALSE)
  /\ today = StartTime
  /\ result = EmptyResult
  /\ enabledChecks = {}
  /\ prev = NoPrev

\* the clock advances before the call reads it
Tick ==
  /\ pc = "read"
  /\ TicksSince(now) < MaxTicks
  /\ now' = Instant(now.d, now.s + TickSeconds)
  /\ UNCHANGED <<validator, calls, validationMode, configFile, configManager, pc, filePath, content, today, result,
                 enabledChecks, prev>>

\* runValidation reads the next file of the list (os.ReadFile)
ReadFile(path, text) ==
  /\ pc = "start"
  /\ pc' = "read"
  /\ filePath' = path
  /\ content' = text
  /\ UNCHANGED <<validator, calls, validationMode, configFile, configManager, now, today, result, enabledChecks, prev>>

\* the list names the same file again: it is read and validated once more,
\* and the call just made is remembered in prev
Repeat ==
  /\ pc = "done"
  /\ pc' = "read"
  /\ prev' = [set |-> TRUE, result |-> result, today |-> today]
  /\ result' = EmptyResult
  /\ enabledChecks' = {}
  /\ UNCHANGED <<validator, calls, validationMode, configFile, configManager, now, filePath, content, today>>

\* the loop iteration ends; its locals are dropped
EndIteration ==
  /\ pc = "done"
  /\ pc' = "start"
  /\ filePath' = ""
  /\ content' = Text(<<>>, FALSE)
  /\ today' = StartTime
  /\ result' = EmptyResult
  /\ enabledChecks' = {}
  /\ prev' = NoPrev
  /\ UNCHANGED <<validator, calls, validationMode, configFile, configManager, now>>

\* the unrecognized keys of the block, which the key scan reports
UnknownKeys(text) ==
  LET parsed == parseFrontMatter(text)
  IN  IF EndsWithNewline(text) /\ ~parsed.err /\ ~parsed.isNil
      THEN UnmarshalGeneric(parsed.fmString).keys \ GetValidKeys
      ELSE {}

\* the dashboards and declared variable names of the block's runbook
RunbookOf(text) ==
  LET parsed == parseFrontMatter(text)
  IN  IF EndsWithNewline(text) /\ ~parsed.err /\ ~parsed.isNil
      THEN parsed.fm.Runbook
      ELSE [set |-> FALSE, Variables |-> <<>>, Dashboards |-> <<>>, KnownIssues |-> <<>>]

\* the keys of the block's entries, in the order of the text
RECURSIVE KeysInOrder(_)
KeysInOrder(block) ==
  IF block = <<>> THEN <<>>
  ELSE (IF Head(block).kind = "entry" THEN <<Head(block).key>> ELSE <<>>)
       \o KeysInOrder(Tail(block))

\* keys with the unrecognized ones taken in the order unknownOrder
RECURSIVE Weave(_, _)
Weave(keys, unknownOrder) ==
  IF keys = <<>> THEN <<>>
  ELSE IF Head(keys) \in GetValidKeys \/ unknownOrder = <<>>
  THEN <<Head(keys)>> \o Weave(Tail(keys), unknownOrder)
  ELSE <<Head(unknownOrder)>> \o Weave(Tail(keys), Tail(unknownOrder))

\* an order in which `range generic` visits all keys of the block: the
\* unrecognized keys in the order unknownOrder, among the recognized ones
RangeOrder(text, unknownOrder) ==
  IF EndsWithNewline(text) /\ Cardinality(DelimiterMatches(text)) >= 2
     /\ ~parseFrontMatter(text).err
  THEN Weave(KeysInOrder(parseFrontMatter(text).fmString), unknownOrder)
  ELSE <<>>

\* result := v.ValidateFile(string(content), filePath)
Validate ==
  /\ pc = "read"
  /\ \E keyOrder \in Orders(UnknownKeys(content)) :
     \E nameOrders \in [1..Len(RunbookOf(content).Dashboards) ->
                          Orders(DeclaredVariableNames(RunbookOf(content)))] :
       result' = ValidateFile(configManager, content, filePath, now,
                             RangeOrder(content, keyOrder), nameOrders)
  /\ today' = now
  /\ enabledChecks' = EnabledChecksFor(configManager, filePath)
  /\ pc' = "done"
  /\ UNCHANGED <<validator, calls, validationMode, configFile, configManager, now, filePath, content, prev>>

Next ==
  \/ Tick
  \/ \E path \in Paths, text \in Docs : ReadFile(path, text)
  \/ Validate
  \/ Repeat
  \/ EndIteration

Spec == Init /\ [][Next]_vars

(* ---------------- resolution of active checks, on its own --------------- *)
\* A second specification applies GetEnabledChecksForPath to every
\* configuration of a bounded family, built from two check identifiers.
MaxOverrides == 2

FamilyRuleSets ==
  {RuleSet(e, d) : e \in {<<>>, <<NoTitle>>, <<NoTitle, NoDescription>>},
                   d \in {<<>>, <<NoDescription>>}}

FamilyOverrides ==
  {DirectoryOverride(p, lists[1], lists[2]) :
     p \in {"docs/**", "docs/legacy/*", "./docs/legacy/x.md"},
     lists \in {<< <<>>, <<NoDescription>> >>, << <<NoDescription>>, <<>> >>,
                << <<NoDescription>>, <<NoDescription>> >>, << <<>>, <<NoTitle>> >>}}

FamilyConfigs ==
  {Config(r, o) : r \in FamilyRuleSets,
                  o \in UNION {[1..n -> FamilyOverrides] : n \in 0..MaxOverrides}}

ResolvePaths ==
  {"docs/legacy/x.md", "./docs/x.md", "docs", "docs-other/x.md", "docs/legacy/a/b.md"}

InitResolve ==
  /\ validator = NewValidator
  /\ calls = NoCalls
  /\ validationMode = ValidateAll
  /\ configFile = NoConfigFile
  /\ configManager \in {Manager(c) : c \in FamilyConfigs}
  /\ now = StartTime
  /\ pc = "start"
  /\ filePath = ""
  /\ content = Text(<<>>, FALSE)
  /\ today = StartTime
  /\ result = EmptyResult
  /\ enabledChecks = {}
  /\ prev = NoPrev

\* enabledChecks := v.configManager.GetEnabledChecksForPath(filePath)
ResolvePath(path) ==
  /\ pc \in {"start", "resolved"}
  /\ pc' = "resolved"
  /\ filePath' = path
  /\ enabledChecks' = EnabledChecksFor(configManager, path)
  /\ UNCHANGED <<validator, calls, validationMode, configFile, configManager, now, content, today, result, prev>>

NextResolve == \E path \in ResolvePaths : ResolvePath(path)

SpecResolve == InitResolve /\ [][NextResolve]_vars

(* ======================= properties ===================================== *)
CatalogIDs == {GetChecks[i].ID : i \in 1..Len(GetChecks)}

Reported == {result.Checks[i].Check : i \in 1..Len(result.Checks)}

Count(check) == Cardinality({i \in 1..Len(result.Checks) : result.Checks[i].Check = check})

\* the decoded metadata of the file last read (defined when Decodable)
Decodable ==
  /\ EndsWithNewline(content)
  /\ Cardinality(DelimiterMatches(content)) >= 2
  /\ ~parseFrontMatter(content).err

Meta == parseFrontMatter(content).fm

\* C1: every finding of a returned result carries a check identifier that is
\* active for the path (it is in the set resolved for that path).
C1_OnlyActiveChecksReported ==
  pc = "done" => Reported \subseteq enabledChecks

Range(list) == {list[i] : i \in 1..Len(list)}

RECURSIVE FoldOverrides(_, _, _)
FoldOverrides(active, overrides, path) ==
  IF overrides = <<>> THEN active
  ELSE LET o == Head(overrides)
       IN  FoldOverrides(IF pathMatches(path, o.Path)
                         THEN (active \cup Range(o.EnabledChecks)) \ Range(o.DisabledChecks)
                         ELSE active,
                         Tail(overrides), path)

FoldActive(config, path) ==
  FoldOverrides(Range(config.DefaultRules.EnabledChecks)
                  \ Range(config.DefaultRules.DisabledChecks),
                config.DirectoryOverrides, path)

\* the entries applied for a path, in order: [on, checks]
RECURSIVE AppliedEntries(_, _)
AppliedEntries(overrides, path) ==
  IF overrides = <<>> THEN <<>>
  ELSE (IF pathMatches(path, Head(overrides).Path)
        THEN <<[on |-> TRUE, checks |-> Range(Head(overrides).EnabledChecks)],
               [on |-> FALSE, checks |-> Range(Head(overrides).DisabledChecks)]>>
        ELSE <<>>)
       \o AppliedEntries(Tail(overrides), path)

AllEntries(config, path) ==
  <<[on |-> TRUE, checks |-> Range(config.DefaultRules.EnabledChecks)],
    [on |-> FALSE, checks |-> Range(config.DefaultRules.DisabledChecks)]>>
  \o AppliedEntries(config.DirectoryOverrides, path)

LastMentionDecides(config, path, active) ==
  LET entries == AllEntries(config, path)
      mentions(c) == {i \in 1..Len(entries) : c \in entries[i].checks}
      Max(S) == CHOOSE x \in S : \A y \in S : y <= x
  IN  \A c \in {NoTitle, NoDescription, NoOwner} :
        (c \in active) <=> (mentions(c) # {} /\ entries[Max(mentions(c))].on)

\* C2: the resolved set is the fold over the default rule set and the
\* matching overrides in declaration order; per identifier the last applied
\* entry that mentions it decides.
C2_ResolveIsFold ==
  pc = "resolved" =>
    /\ enabledChecks = FoldActive(configManager.config, filePath)
    /\ LastMentionDecides(configManager.config, filePath, enabledChecks)

\* a later matching override re-enabled what an earlier matching one disabled
C2_Witness ==
  /\ pc = "resolved"
  /\ Len(configManager.config.DirectoryOverrides) = 2
  /\ LET o == configManager.config.DirectoryOverrides
     IN  /\ pathMatches(filePath, o[1].Path) /\ pathMatches(filePath, o[2].Path)
         /\ NoDescription \in Range(o[1].DisabledChecks)
         /\ NoDescription \in Range(o[2].EnabledChecks)
         /\ NoDescription \notin Range(o[2].DisabledChecks)
  /\ NoDescription \in enabledChecks

\* C3: with no configuration file the fallback enables the whole catalog,
\* has no overrides, and resolves as the validator's built-in default does.
C3_FallbackEnablesCatalog ==
  (pc = "done" /\ configManager = Manager(getDefaultConfig)) =>
    /\ getDefaultConfig.DirectoryOverrides = <<>>
    /\ enabledChecks = CatalogIDs
    /\ enabledChecks = EnabledChecksFor(DefaultConfigManager, filePath)


\* C4: a text without a final line terminator yields exactly one finding,
\* NO_TRAILING_NEWLINE, and NumFrontMatterLines stays 0, whatever it contains.
C4_NoTrailingNewline ==
  (pc = "done" /\ configManager = DefaultConfigManager /\ ~EndsWithNewline(content)) =>
    /\ Len(result.Checks) = 1
    /\ result.Checks[1].Check = NoTrailingNewline
    /\ result.NumFrontMatterLines = 0

\* an unterminated text whose block is well-formed and breaks rules (it has
\* an unknown key and a short title)
C4_Witness ==
  /\ pc = "done"
  /\ configManager = DefaultConfigManager
  /\ ~EndsWithNewline(content)
  /\ Cardinality(DelimiterMatches(content)) = 2
  /\ ~parseFrontMatter(content).isNil
  /\ parseFrontMatter(content).fm.Title = "Bad"
  /\ Reported = {NoTrailingNewline}

\* C5: a terminated text with no delimiter line or exactly one yields exactly
\* one finding, NO_FRONT_MATTER, with NumFrontMatterLines 0; both cases give
\* the same result.
C5_NoFrontMatter ==
  (/\ pc = "done"
   /\ configManager = DefaultConfigManager
   /\ EndsWithNewline(content)
   /\ Cardinality(DelimiterMatches(content)) <= 1) =>
    result = ValidationResult(0, <<CheckResult(NoFrontMatter, <<>>, 1, "", <<>>)>>)

\* one delimiter line, followed by well-formed entries
C5_Witness ==
  /\ pc = "done"
  /\ configManager = DefaultConfigManager
  /\ EndsWithNewline(content)
  /\ Cardinality(DelimiterMatches(content)) = 1
  /\ Len(content.lines) > 2
  /\ content.lines[2].kind = "entry"
  /\ Reported = {NoFrontMatter}

\* the findings of a result that are not UNKNOWN_ATTRIBUTE findings, in order
Others(checks) == SelectSeq(checks, LAMBDA c : c.Check # UnknownAttribute)

\* C6 as stated: a second call on the same path, text and configuration
\* returns the result of the first, whenever it is made.
C6_SameInputsSameResult ==
  (pc = "done" /\ prev.set) => result = prev.result

\* C6, amended: two calls on the same path, text and configuration that read
\* the same clock value return the same findings with the same values, in the
\* same order except among the UNKNOWN_ATTRIBUTE findings.
C6_SameClockSameFindings ==
  (pc = "done" /\ prev.set /\ today = prev.today) =>
    /\ result.NumFrontMatterLines = prev.result.NumFrontMatterLines
    /\ Len(result.Checks) = Len(prev.result.Checks)
    /\ Range(result.Checks) = Range(prev.result.Checks)
    /\ Others(result.Checks) = Others(prev.result.Checks)
    /\ \A i \in 1..Len(result.Checks) :
         \/ result.Checks[i] = prev.result.Checks[i]
         \/ /\ result.Checks[i].Check = UnknownAttribute
            /\ prev.result.Checks[i].Check = UnknownAttribute

\* the second call read the same clock value and listed the unknown keys in
\* another order
C6_Witness ==
  /\ pc = "done"
  /\ prev.set
  /\ today = prev.today
  /\ result # prev.result
  /\ Cardinality(UnknownKeys(content)) = 2

\* C7: a description that contains "\n" yields INVALID_DESCRIPTION and none
\* of SHORT_DESCRIPTION, LONG_DESCRIPTION, NO_FULL_STOP_DESCRIPTION.
C7_LineBreakIsInvalidDescription ==
  (/\ pc = "done"
   /\ configManager = DefaultConfigManager
   /\ Decodable
   /\ Contains(Meta.Description, "\n")) =>
    /\ InvalidDescription \in Reported
    /\ Reported \cap {ShortDescription, LongDescription, NoFullStopDescription} = {}

\* now minus t is strictly greater than e days, in exact arithmetic
Exceeds(t, e) ==
  \/ today.d - t.d > e
  \/ (today.d - t.d = e /\ today.s - t.s > 0)

\* the findings of the given check in the result
FindingsOf(check) == SelectSeq(result.Checks, LAMBDA c : c.Check = check)

\* C8: a last_review_date strictly after the current time yields
\* INVALID_LAST_REVIEW_DATE with the title and owner of the document and
\* never REVIEW_TOO_LONG_AGO, for any expiration_in_days; the two findings
\* never occur together.
C8_FutureDateIsInvalid ==
  LET fm == Meta
  IN
      pc = "done" =>
        /\ ~({InvalidLastReviewDate, ReviewTooLongAgo} \subseteq Reported)
        /\ (Decodable /\ fm.LastReviewDate.set /\ After(fm.LastReviewDate.Time, today)) =>
             /\ FindingsOf(InvalidLastReviewDate) =
                  <<CheckResult(InvalidLastReviewDate, <<FormatDate(fm.LastReviewDate.Time)>>,
                                0, fm.Title, fm.Owner)>>
             /\ ReviewTooLongAgo \notin Reported

\* a date in the future with a negative expiration_in_days, REVIEW_TOO_LONG_AGO
\* being active for the path
C8_Witness ==
  /\ pc = "done"
  /\ Decodable
  /\ Meta.LastReviewDate.set
  /\ After(Meta.LastReviewDate.Time, today)
  /\ Meta.ExpirationInDays.set /\ Meta.ExpirationInDays.val < 0
  /\ Meta.Title # "" /\ Meta.Owner # <<>>
  /\ ReviewTooLongAgo \in enabledChecks
  /\ InvalidLastReviewDate \in Reported

\* the expiration period of the document in days
ExpirationDays == IF Meta.ExpirationInDays.set THEN Meta.ExpirationInDays.val
                  ELSE DefaultExpirationDays

\* C9: for a date that is not in the future REVIEW_TOO_LONG_AGO is reported,
\* when active, exactly when now minus the date exceeds expiration_in_days
\* days (365 when unset), and INVALID_LAST_REVIEW_DATE is not reported.
C9_TooLongAgoIffExceeds ==
  (/\ pc = "done"
   /\ Decodable
   /\ Meta.LastReviewDate.set
   /\ ~After(Meta.LastReviewDate.Time, today)) =>
    /\ (ReviewTooLongAgo \in Reported) <=>
         (ReviewTooLongAgo \in enabledChecks /\ Exceeds(Meta.LastReviewDate.Time, ExpirationDays))
    /\ InvalidLastReviewDate \notin Reported

\* C10: for a non-empty title SHORT_TITLE is reported iff its length is below
\* 5 and LONG_TITLE iff it is above 100; an empty title yields NO_TITLE and
\* neither length finding.
C10_TitleBoundaries ==
  LET fm == Meta
  IN
      (pc = "done" /\ Decodable) =>
        /\ (NoTitle \in Reported) <=> fm.Title = ""
        /\ (ShortTitle \in Reported) <=> (fm.Title # "" /\ Len(fm.Title) < 5)
        /\ (LongTitle \in Reported) <=> (fm.Title # "" /\ Len(fm.Title) > 100)
        /\ Count(NoTitle) + Count(ShortTitle) + Count(LongTitle) <= 1

\* a title of length 100 with neither length finding
C10_Witness ==
  /\ pc = "done"
  /\ Decodable
  /\ Len(Meta.Title) = 100
  /\ Reported \cap {NoTitle, ShortTitle, LongTitle} = {}

\* C11: under the configuration with default checks NO_TITLE and
\* NO_DESCRIPTION and an override on docs/legacy/** that disables
\* NO_DESCRIPTION, a decodable document at docs/legacy/x.md with neither
\* title nor description has NO_TITLE as its only finding.
C11_OnlyNoTitle ==
  (/\ pc = "done"
   /\ configManager = Manager(LegacyDocsConfig)
   /\ filePath = "docs/legacy/x.md"
   /\ Decodable
   /\ Meta.Title = "" /\ Meta.Description = "") =>
    result.Checks = <<Finding(NoTitle)>>

(* ---------------- path patterns, on their own --------------------------- *)
\* A third specification resolves the active checks of paths of bounded
\* depth under a configuration with one override, which enables NO_TITLE
\* for the paths its pattern matches.
MaxDepth == 3

PathSegments == {"docs", "docs-other"}

RECURSIVE Join(_)
Join(segments) ==
  IF Len(segments) = 1 THEN Head(segments)
  ELSE Head(segments) \o "/" \o Join(Tail(segments))

PlainPaths == {Join(s) : s \in UNION {[1..n -> PathSegments] : n \in 1..MaxDepth}}

MatchPaths == PlainPaths \cup {"./" \o p : p \in PlainPaths}

\* README, "Path Patterns": the pattern with a leading "**/" and files it is
\* said to match
IndexPattern == "**/_index.md"

IndexPaths == {"_index.md", "docs/_index.md", "src/content/docs/_index.md"}

MatchPatterns ==
  MatchPaths \cup {p \o "/**" : p \in MatchPaths} \cup {p \o "/*" : p \in MatchPaths}
  \cup {IndexPattern}

OneOverride(pattern) ==
  Config(RuleSet(<<>>, <<>>), <<DirectoryOverride(pattern, <<NoTitle>>, <<>>)>>)

InitMatch ==
  /\ validator = NewValidator
  /\ calls = NoCalls
  /\ validationMode = ValidateAll
  /\ configFile = NoConfigFile
  /\ configManager \in {Manager(OneOverride(pattern)) : pattern \in MatchPatterns}
  /\ now = StartTime
  /\ pc = "start"
  /\ filePath = ""
  /\ content = Text(<<>>, FALSE)
  /\ today = StartTime
  /\ result = EmptyResult
  /\ enabledChecks = {}
  /\ prev = NoPrev

NextMatch == \E path \in MatchPaths \cup IndexPaths : ResolvePath(path)

SpecMatch == InitMatch /\ [][NextMatch]_vars

\* the segments of a path, one leading "./" dropped
RECURSIVE SplitFrom(_, _)
SplitFrom(path, segment) ==
  IF path = "" THEN <<segment>>
  ELSE IF Head(path) = Head("/") THEN <<segment>> \o SplitFrom(Tail(path), "")
  ELSE SplitFrom(Tail(path), segment \o SubSeq(path, 1, 1))

Segments(path) ==
  IF Len(path) >= 2 /\ SubSeq(path, 1, 2) = "./"
  THEN SplitFrom(SubSeq(path, 3, Len(path)), "")
  ELSE SplitFrom(path, "")

IsPrefixSeq(p, f) == Len(p) <= Len(f) /\ SubSeq(f, 1, Len(p)) = p

\* the three forms of a pattern, on segments
FormMatches(f, p) ==
  IF p[Len(p)] = "**" THEN IsPrefixSeq(SubSeq(p, 1, Len(p) - 1), f)
  ELSE IF p[Len(p)] = "*"
  THEN IsPrefixSeq(SubSeq(p, 1, Len(p) - 1), f) /\ Len(f) = Len(p)
  ELSE f = p

ThePattern == configManager.config.DirectoryOverrides[1].Path

\* C12: pathMatches implements exactly the three forms: an exact pattern
\* matches the identical path only, P/** matches P and every path nested
\* under P, P/* matches the paths one segment below P; one leading "./" on
\* either side is ignored.
C12_ThreeForms ==
  pc = "resolved" =>
    /\ pathMatches(filePath, ThePattern)
         <=> FormMatches(Segments(filePath), Segments(ThePattern))
    /\ (NoTitle \in enabledChecks) <=> FormMatches(Segments(filePath), Segments(ThePattern))

\* a sibling that shares P as a string prefix is not matched by P/**
C12_Witness ==
  /\ pc = "resolved"
  /\ ThePattern = "./docs/**"
  /\ filePath = "docs-other/docs"
  /\ enabledChecks = {}

\* C13: an override whose path is **/_index.md applies to every file named
\* _index.md, at any depth.
C13_LeadingGlob ==
  (/\ pc = "resolved"
   /\ ThePattern = IndexPattern
   /\ Segments(filePath)[Len(Segments(filePath))] = "_index.md") =>
    /\ pathMatches(filePath, ThePattern)
    /\ NoTitle \in enabledChecks

\* the depth of the path prefix of a pattern: its segments, the wildcard aside
PrefixDepth(pattern) ==
  IF Segments(pattern)[Len(Segments(pattern))] \in {"*", "**"}
  THEN Len(Segments(pattern)) - 1
  ELSE Len(Segments(pattern))

\* what an override says about a check: "on", "off" or "none"
Says(override, check) ==
  IF check \in Range(override.DisabledChecks) THEN "off"
  ELSE IF check \in Range(override.EnabledChecks) THEN "on"
  ELSE "none"

\* C14: when two matching overrides disagree about a check, the one with the
\* deeper path prefix decides, in whatever order they are declared.
C14_MostSpecificDecides ==
  (pc = "resolved" /\ Len(configManager.config.DirectoryOverrides) = 2) =>
    \A i, j \in {1, 2} :
      LET o == configManager.config.DirectoryOverrides
      IN  (/\ pathMatches(filePath, o[i].Path) /\ pathMatches(filePath, o[j].Path)
           /\ PrefixDepth(o[i].Path) > PrefixDepth(o[j].Path)
           /\ Says(o[i], NoDescription) # "none"
           /\ Says(o[j], NoDescription) # "none"
           /\ Says(o[i], NoDescription) # Says(o[j], NoDescription)) =>
            ((NoDescription \in enabledChecks) <=> Says(o[i], NoDescription) = "on")

(* ---------------- the run from its start (cmd/root.go) ------------------ *)
\* What the --config path points to: no file, a file that cannot be read, a
\* file that is not the YAML of a Config, or a file holding a Config.
MissingFile    == [state |-> "missing", config |-> EmptyConfig]
UnreadableFile == [state |-> "unreadable", config |-> EmptyConfig]
MalformedFile  == [state |-> "malformed", config |-> EmptyConfig]
ValidFile(config) == [state |-> "valid", config |-> config]

ConfigFiles ==
  {MissingFile, UnreadableFile, MalformedFile,
   ValidFile(EmptyConfig), ValidFile(LastReviewedConfig), ValidFile(LegacyDocsConfig)}

\* no Manager (nil)
NilManager == [kind |-> "nil", config |-> EmptyConfig]

\* Manager.loadConfig: [err, config]
loadConfig(file) ==
  IF file.state = "missing" THEN [err |-> FALSE, config |-> getDefaultConfig]
  ELSE IF file.state = "unreadable" THEN [err |-> TRUE, config |-> EmptyConfig]
  ELSE IF file.state = "malformed" THEN [err |-> TRUE, config |-> EmptyConfig]
  ELSE [err |-> FALSE, config |-> file.config]

\* Variant of NewManager that falls back to the default configuration when
\* loading fails.
NewManager_FallbackOnError(file) ==
  IF loadConfig(file).err
  THEN [err |-> FALSE, manager |-> Manager(getDefaultConfig)]
  ELSE [err |-> FALSE, manager |-> Manager(loadConfig(file).config)]

\* config.NewManager: [err, manager]
NewManager(file) ==
  IF loadConfig(file).err
  THEN [err |-> TRUE, manager |-> NilManager]
  ELSE [err |-> FALSE, manager |-> Manager(loadConfig(file).config)]

\* validateValidationMode: TRUE when it returns an error
validateValidationMode(mode) == mode \notin {ValidateAll, ValidateLastReviewDate}

ValidationModes == {ValidateAll, ValidateLastReviewDate, "fast"}

RunDocs == {PageOf(GoodFields), PageOf(BareFields), Text(<<RawLine("# Body")>>, FALSE)}

InitRun ==
  /\ validator = NewValidator
  /\ calls = NoCalls
  /\ validationMode \in ValidationModes
  /\ configFile \in ConfigFiles
  /\ configManager = NilManager
  /\ now = StartTime
  /\ pc = "init"
  /\ filePath = ""
  /\ content = Text(<<>>, FALSE)
  /\ today = StartTime
  /\ result = EmptyResult
  /\ enabledChecks = {}
  /\ prev = NoPrev

\* runValidation up to the Validator: the flag is checked, the configuration
\* is loaded; an error ends the run ("usage", "failed")
StartRun ==
  /\ pc = "init"
  /\ IF validateValidationMode(validationMode)
     THEN pc' = "usage" /\ UNCHANGED configManager
     ELSE IF NewManager(configFile).err
     THEN pc' = "failed" /\ UNCHANGED configManager
     ELSE pc' = "start" /\ configManager' = NewManager(configFile).manager
  /\ UNCHANGED <<validator, calls, validationMode, configFile, now, filePath, content, today, result,
                 enabledChecks, prev>>

\* runValidation after the loop: the results are printed
PrintResults ==
  /\ pc = "start"
  /\ pc' = "printed"
  /\ UNCHANGED <<validator, calls, validationMode, configFile, configManager, now, filePath, content,
                 today, result, enabledChecks, prev>>

NextRun ==
  \/ StartRun
  \/ \E path \in Paths, text \in RunDocs : ReadFile(path, text)
  \/ Validate
  \/ EndIteration
  \/ PrintResults

SpecRun == InitRun /\ [][NextRun]_vars

\* C15: a missing configuration file gives a manager with the non-empty
\* default configuration and no error; a file that cannot be read or parsed
\* gives an error and no manager, and the run ends before any document is
\* validated and before any output.
C15_LoadOutcomes ==
  (pc # "init" /\ ~validateValidationMode(validationMode)) =>
    /\ configFile.state = "missing" =>
         /\ pc \notin {"failed", "usage"}
         /\ configManager = Manager(getDefaultConfig)
         /\ getDefaultConfig.DefaultRules.EnabledChecks # <<>>
    /\ configFile.state \in {"unreadable", "malformed"} =>
         /\ pc = "failed"
         /\ configManager = NilManager
         /\ filePath = "" /\ result = EmptyResult /\ enabledChecks = {}
    /\ configFile.state = "valid" =>
         /\ pc \notin {"failed", "usage"}
         /\ configManager = Manager(configFile.config)

\* the file exists and is not YAML: the run has failed
C15_Witness ==
  /\ pc = "failed"
  /\ configFile = MalformedFile
  /\ configManager = NilManager

\* the last_review_date node of the block of the file last read
DateNode == Lookup(Between(content, Min(DelimiterMatches(content)), DelimiterMatches(content)),
                   "last_review_date")

\* the accepted formats that parse the text, by position in the list
Parsing(dateStr) == {k \in 1..Len(formats) : TimeParse(formats[k], dateStr).ok}

\* a page whose only variable part is the date
DatedPage == content \in DateDocs \cup FormatDocs /\ IsScalar(DateNode)

C16_NoneParses ==
  /\ pc = "done"
  /\ DatedPage
  /\ DateNode = YStr("2025-02-30")
  /\ result = ValidationResult(0, <<CheckResult(NoFrontMatter, <<>>, 1, "", <<>>)>>)

\* the file last read is a runbook page: layout runbook, toc_hide true, and a
\* runbook declaration
RunbookPage ==
  Decodable /\ (LET fm == Meta IN fm.Layout = "runbook" /\ fm.TocHide /\ fm.Runbook.set)

\* C17: with all checks enabled, a runbook page whose variables, dashboards
\* or known issues are an empty list is reported INVALID_RUNBOOK_VARIABLES,
\* INVALID_RUNBOOK_DASHBOARDS or INVALID_RUNBOOK_KNOWN_ISSUES respectively.
C17_EmptyListsReported ==
  (pc = "done" /\ configManager = DefaultConfigManager /\ RunbookPage) =>
    LET runbook == Meta.Runbook
    IN  /\ runbook.Variables = <<>> => InvalidRunbookVariables \in Reported
        /\ runbook.Dashboards = <<>> => InvalidRunbookDashboards \in Reported
        /\ runbook.KnownIssues = <<>> => InvalidRunbookKnownIssues \in Reported

\* the file last read has layout runbook and a runbook declaration
RunbookLayout ==
  Decodable /\ (LET fm == Meta IN fm.Layout = "runbook" /\ fm.Runbook.set)

\* the values of the findings of one check
ValuesOf(check) == {FindingsOf(check)[i].Value : i \in 1..Len(FindingsOf(check))}

\* positions of the variables without a name, with a name outside ^[A-Z_]+$,
\* and with a name that occurred at an earlier position
Unnamed(variables) == {i \in 1..Len(variables) : variables[i].Name = ""}
Misnamed(variables) ==
  {i \in 1..Len(variables) :
     variables[i].Name # "" /\ ~MatchesVariableName(variables[i].Name)}
Repeated(variables) ==
  {i \in 1..Len(variables) :
     /\ variables[i].Name # ""
     /\ \E j \in 1..(i - 1) : variables[j].Name = variables[i].Name}

\* C18: with all checks enabled, every variable whose name occurred earlier
\* in the list yields one duplicate INVALID_RUNBOOK_VARIABLE_NAME finding,
\* every name outside ^[A-Z_]+$ one format finding, and every variable
\* without a name one RUNBOOK_VARIABLE_WITHOUT_NAME and neither of the others.
C18_VariableFindings ==
  (pc = "done" /\ configManager = DefaultConfigManager /\ RunbookLayout) =>
    LET variables == Meta.Runbook.Variables
    IN  /\ Count(RunbookVariableWithoutName) = Cardinality(Unnamed(variables))
        /\ Count(InvalidRunbookVariableName) =
             Cardinality(Misnamed(variables)) + Cardinality(Repeated(variables))
        /\ \A i \in Unnamed(variables) :
             <<"Variable at index " \o Itoa(i - 1)>>
               \in ValuesOf(RunbookVariableWithoutName)
        /\ \A i \in Misnamed(variables) :
             <<variables[i].Name>> \in ValuesOf(InvalidRunbookVariableName)
        /\ \A i \in Repeated(variables) :
             <<"Duplicate variable name: " \o variables[i].Name>>
               \in ValuesOf(InvalidRunbookVariableName)

\* two variables named INSTALLATION, each matching ^[A-Z_]+$
C18_Witness ==
  /\ pc = "done"
  /\ configManager = DefaultConfigManager
  /\ RunbookLayout
  /\ Cardinality({i \in 1..Len(Meta.Runbook.Variables) :
                    Meta.Runbook.Variables[i].Name = "INSTALLATION"}) = 2
  /\ MatchesVariableName("INSTALLATION")
  /\ <<"Duplicate variable name: INSTALLATION">> \in ValuesOf(InvalidRunbookVariableName)
  /\ Count(InvalidRunbookVariableName) = 4
  /\ Count(RunbookVariableWithoutName) = 1

\* positions of the dashboards with a name and a link, and of the others
Complete(dashboards) ==
  {i \in 1..Len(dashboards) : dashboards[i].Name # "" /\ dashboards[i].Link # ""}
Incomplete(dashboards) == (1..Len(dashboards)) \ Complete(dashboards)

\* positions in the link's `$NAME` tokens of the names that are not declared
UndefinedTokens(link, names) ==
  {k \in 1..Len(FindVariables(link)) : FindVariables(link)[k] \notin names}

\* number of undefined tokens in the links of the complete dashboards
RECURSIVE UndefinedCount(_, _, _)
UndefinedCount(dashboards, i, names) ==
  IF i > Len(dashboards) THEN 0
  ELSE (IF i \in Complete(dashboards)
        THEN Cardinality(UndefinedTokens(dashboards[i].Link, names)) ELSE 0)
       + UndefinedCount(dashboards, i + 1, names)

\* the findings of a check whose value starts with the given words
CountPrefixed(check, prefix) ==
  Cardinality({i \in 1..Len(result.Checks) :
                 /\ result.Checks[i].Check = check
                 /\ HasPrefix(result.Checks[i].Value[1], prefix)})

\* names of the variables that have one
NamesOf(variables) ==
  {variables[i].Name : i \in 1..Len(variables)} \ {""}

\* C19: where the dashboard checks are active, every `$NAME` token of a
\* complete dashboard's link whose NAME no variable declares yields one
\* INVALID_RUNBOOK_DASHBOARD_LINK finding naming the token and the link, and
\* declared tokens yield none; a dashboard without name or link yields
\* INVALID_RUNBOOK_DASHBOARD and no finding about its link.
C19_UndefinedTokens ==
  (/\ pc = "done"
   /\ {InvalidRunbookDashboard, InvalidRunbookDashboardLink} \subseteq enabledChecks
   /\ RunbookLayout) =>
    LET dashboards == Meta.Runbook.Dashboards
        names      == NamesOf(Meta.Runbook.Variables)
    IN  /\ CountPrefixed(InvalidRunbookDashboardLink, "Undefined variable $") =
             UndefinedCount(dashboards, 1, names)
        /\ \A i \in Complete(dashboards) :
             \A k \in UndefinedTokens(dashboards[i].Link, names) :
               <<"Undefined variable $" \o FindVariables(dashboards[i].Link)[k]
                 \o " in link: " \o dashboards[i].Link>>
                 \in ValuesOf(InvalidRunbookDashboardLink)
        /\ Count(InvalidRunbookDashboard) = Cardinality(Incomplete(dashboards))
        /\ \A i \in Incomplete(dashboards) :
             /\ <<"Dashboard at index " \o Itoa(i - 1) \o " missing name or link">>
                  \in ValuesOf(InvalidRunbookDashboard)
             /\ (/\ dashboards[i].Link # ""
                 /\ \A j \in Complete(dashboards) :
                      dashboards[j].Link # dashboards[i].Link) =>
                  \A v \in ValuesOf(InvalidRunbookDashboardLink) :
                    ~HasSuffix(v[1], dashboards[i].Link)

\* https://host/$UNDEFINED with the variables INSTALLATION and CLUSTER, next
\* to a link with $OTHER twice and a dashboard without a name
C19_Witness ==
  /\ pc = "done"
  /\ RunbookLayout
  /\ configManager = DefaultConfigManager
  /\ NamesOf(Meta.Runbook.Variables) = {"INSTALLATION", "CLUSTER"}
  /\ <<"Undefined variable $UNDEFINED in link: https://host/$UNDEFINED">>
       \in ValuesOf(InvalidRunbookDashboardLink)
  /\ CountPrefixed(InvalidRunbookDashboardLink, "Undefined variable $") = 3
  /\ Count(InvalidRunbookDashboard) = 1

(* ---------------- concurrent calls on one Validator ---------------------- *)
\* validateAll, in the order of its calls
\* Variant of Validators in which validateAll calls validateOwner before
\* validateTitle.
Validators_OwnerFirst ==
  <<"validateUnknownAttributes", "validateOwner", "validateTitle",
    "validateDescription", "validateLinkTitle", "validateMenuAndWeight",
    "validateUserQuestions", "validateLastReviewDate", "validateRunbook">>

Validators ==
  <<"validateUnknownAttributes", "validateTitle", "validateDescription",
    "validateLinkTitle", "validateMenuAndWeight", "validateOwner",
    "validateUserQuestions", "validateLastReviewDate", "validateRunbook">>

IndexOf(stage) == CHOOSE i \in 1..Len(Validators) : Validators[i] = stage

IsValidator(stage) == \E i \in 1..Len(Validators) : Validators[i] = stage

\* where the call stands after the validator `stage`
StageAfter(stage) ==
  IF IndexOf(stage) = Len(Validators) THEN "returned"
  ELSE Validators[IndexOf(stage) + 1]

\* `for key := range generic { if !v.validKeys[key] {...} }`, reading the
\* valid keys from the Validator
RECURSIVE UnknownAmong(_, _)
UnknownAmong(keyOrder, validKeys) ==
  IF keyOrder = <<>> THEN <<>>
  ELSE (IF Head(keyOrder) \notin validKeys
        THEN <<FindingValue(UnknownAttribute, Head(keyOrder))>> ELSE <<>>)
       \o UnknownAmong(Tail(keyOrder), validKeys)

\* what one validator of validateAll appends, reading the Validator v, its
\* ConfigManager cm and the clock
StageFindings(stage, v, cm, call, fm, fmString, clock) ==
  CASE stage = "validateUnknownAttributes" ->
         IF UnmarshalGeneric(fmString).err THEN <<>>
         ELSE UnknownAmong(call.keyOrder, v.validKeys)
    [] stage = "validateTitle"          -> validateTitle(fm)
    [] stage = "validateDescription"    -> validateDescription(cm, fm, call.filePath)
    [] stage = "validateLinkTitle"      -> validateLinkTitle(cm, fm, call.filePath)
    [] stage = "validateMenuAndWeight"  -> validateMenuAndWeight(fm)
    [] stage = "validateOwner"          -> validateOwner(cm, fm, call.filePath)
    [] stage = "validateUserQuestions"  -> validateUserQuestions(cm, fm, call.filePath)
    [] stage = "validateLastReviewDate" ->
         validateLastReviewDate(cm, fm, call.filePath, clock)
    [] stage = "validateRunbook"        ->
         validateRunbook(cm, fm, call.filePath, call.nameOrders)

\* Variant of ValidatorAfter in which the key scan records the keys it has
\* reported as valid keys of the Validator.
ValidatorAfter_LearnsKeys(v, call) ==
  IF call.stage = "validateUnknownAttributes"
  THEN [v EXCEPT !.validKeys = @ \cup UnknownKeys(call.content)]
  ELSE v

\* the Validator after a validator of validateAll has run for a call: no
\* validator assigns a field of v
ValidatorAfter(v, call) == v

\* the ConfigManager a Validator gets: validator.New without a configuration
\* file, config.NewManager with one
LoadedManager(file) ==
  IF file = NoConfigFile THEN DefaultConfigManager ELSE NewManager(file).manager

ConcurrentDocs ==
  {Page(BadEntries),
   Page(<<Entry("title", YStr("Valid title")), Entry("foo", YNull)>>),
   Text(<<RawLine("# Just a header")>>, FALSE),
   Text(<<RawLine("---")>> \o GoodEntries \o <<RawLine("# Body")>>, TRUE),
   Page(BadEntries \o
        <<Entry("owner", YSeq(<<"team-a">>)), Entry("layout", YStr("runbook")),
          Entry("runbook",
                YRunbook(<<RunbookVariable("lower", "", "")>>,
                         <<RunbookDashboard("", "ftp://host/x")>>,
                         <<RunbookKnownIssue("", "")>>))>>),
   PageOf([GoodFields EXCEPT
             !["layout"] = YStr("runbook"),
             !["runbook"] =
               YRunbook(<<RunbookVariable("A", "", ""), RunbookVariable("AB", "", "")>>,
                        <<RunbookDashboard("Prefix", "$AB//x")>>, <<>>)])}

ConcurrentPaths == {"test.md", "docs/legacy/x.md"}

InitConcurrent ==
  /\ validator = NewValidator
  /\ calls = NoCalls
  /\ validationMode = ValidateAll
  /\ configFile \in {NoConfigFile, ValidFile(LegacyDocsConfig)}
  /\ configManager = LoadedManager(configFile)
  /\ now = StartTime
  /\ pc = "start"
  /\ filePath = ""
  /\ content = Text(<<>>, FALSE)
  /\ today = StartTime
  /\ result = EmptyResult
  /\ enabledChecks = {}
  /\ prev = NoPrev

\* a thread calls v.ValidateFile(text, path)
Enter(t, path, text) ==
  /\ calls[t].stage = "idle"
  /\ \E keyOrder \in Orders(UnknownKeys(text)) :
     \E nameOrders \in [1..Len(RunbookOf(text).Dashboards) ->
                          Orders(DeclaredVariableNames(RunbookOf(text)))] :
       calls' = [calls EXCEPT ![t] =
                   [stage |-> "newline", filePath |-> path, content |-> text,
                    keyOrder |-> RangeOrder(text, keyOrder),
                    nameOrders |-> nameOrders,
                    result |-> EmptyResult]]
  /\ UNCHANGED <<validator, validationMode, configFile, configManager, now, pc, filePath,
                 content, today, result, enabledChecks, prev>>

\* ValidateFile: the trailing-newline test
CheckNewline(t) ==
  /\ calls[t].stage = "newline"
  /\ calls' = [calls EXCEPT ![t] =
       IF ~EndsWithNewline(calls[t].content)
       THEN [calls[t] EXCEPT
               !.stage = "returned",
               !.result = ValidationResult(0,
                  IfActive(configManager, calls[t].filePath,
                           CheckResult(NoTrailingNewline, <<>>,
                                       1 + CountNewlines(calls[t].content), "", <<>>)))]
       ELSE [calls[t] EXCEPT !.stage = "parse"]]
  /\ UNCHANGED <<validator, validationMode, configFile, configManager, now, pc, filePath,
                 content, today, result, enabledChecks, prev>>

\* ValidateFile: parseFrontMatter and the NO_FRONT_MATTER return
ParseBlock(t) ==
  /\ calls[t].stage = "parse"
  /\ calls' = [calls EXCEPT ![t] =
       IF parseFrontMatter(calls[t].content).err \/ parseFrontMatter(calls[t].content).isNil
       THEN [calls[t] EXCEPT
               !.stage = "returned",
               !.result = ValidationResult(0,
                  IfActive(configManager, calls[t].filePath,
                           CheckResult(NoFrontMatter, <<>>, 1, "", <<>>)))]
       ELSE [calls[t] EXCEPT
               !.stage = Validators[1],
               !.result = ValidationResult(parseFrontMatter(calls[t].content).numLines,
                                           <<>>)]]
  /\ UNCHANGED <<validator, validationMode, configFile, configManager, now, pc, filePath,
                 content, today, result, enabledChecks, prev>>

\* validateAll: the next validator appends its findings to the call's result
RunValidator(t) ==
  /\ IsValidator(calls[t].stage)
  /\ calls' = [calls EXCEPT ![t] =
       [calls[t] EXCEPT
          !.stage = StageAfter(calls[t].stage),
          !.result = ValidationResult(calls[t].result.NumFrontMatterLines,
             calls[t].result.Checks
             \o StageFindings(calls[t].stage, validator, configManager, calls[t],
                              parseFrontMatter(calls[t].content).fm,
                              parseFrontMatter(calls[t].content).fmString, now))]]
  /\ validator' = ValidatorAfter(validator, calls[t])
  /\ UNCHANGED <<validationMode, configFile, configManager, now, pc, filePath,
                 content, today, result, enabledChecks, prev>>

\* the caller takes the result; the thread may call again
TakeResult(t) ==
  /\ calls[t].stage = "returned"
  /\ calls' = [calls EXCEPT ![t] = IdleCall]
  /\ UNCHANGED <<validator, validationMode, configFile, configManager, now, pc, filePath,
                 content, today, result, enabledChecks, prev>>

NextConcurrent ==
  \E t \in Threads :
    \/ \E path \in ConcurrentPaths, text \in ConcurrentDocs : Enter(t, path, text)
    \/ CheckNewline(t)
    \/ ParseBlock(t)
    \/ RunValidator(t)
    \/ TakeResult(t)

SpecConcurrent == InitConcurrent /\ [][NextConcurrent]_vars

\* C20: calls write neither the Validator nor the loaded configuration, and
\* under every interleaving each call returns what ValidateFile returns for
\* its text and path alone.
C20_CallsAreIndependent ==
  /\ validator = NewValidator
  /\ configManager = LoadedManager(configFile)
  /\ \A t \in Threads :
       calls[t].stage = "returned" =>
         calls[t].result = ValidateFile(configManager, calls[t].content, calls[t].filePath,
                                        now, calls[t].keyOrder, calls[t].nameOrders)

\* two calls on different documents with the same unknown key: one has
\* returned UNKNOWN_ATTRIBUTE after the other ran its key scan
C20_Witness ==
  /\ calls["t1"].stage = "returned"
  /\ calls["t2"].stage = "validateOwner"
  /\ calls["t1"].content = Page(BadEntries)
  /\ calls["t2"].content = Page(<<Entry("title", YStr("Valid title")), Entry("foo", YNull)>>)
  /\ calls["t2"].result.Checks[1] = FindingValue(UnknownAttribute, "foo")
  /\ \E i \in 1..Len(calls["t1"].result.Checks) :
       calls["t1"].result.Checks[i].Check = UnknownAttribute

(* ---------------- one call per file, clock fixed ------------------------- *)
\* documents combining violations of several fields
MixedDocs ==
  {Page(<<Entry("title", YStr("Bad")), Entry("zeta", YStr("x")), Entry("owner", YSeq(<<"team-a">>)),
          Entry("alpha", YNull), Entry("description", YStr("Short"))>>),
   Page(<<Entry("unknown", YSeq(<<"a">>))>>),
   Page(<<Entry("title", YStr(Rep("t", 41))), Entry("linkTitle", YStr("Short"))>>),
   Page(<<Entry("title", YStr("Valid title")), Entry("linkTitle", YStr(Rep("l", 40)))>>),
   Page(<<Entry("linkTitle", YStr("Only a link title")), Entry("menu", YMap),
          Entry("weight", YInt(0))>>),
   Page(<<Entry("title", YStr("Valid title")), Entry("menu", YNull)>>),
   Page(<<Entry("title", YStr("Valid title")), Entry("layout", YStr("docs")),
          Entry("toc_hide", YBool(FALSE)),
          Entry("runbook", YRunbook(<<RunbookVariable("lower", "", "")>>, <<>>, <<>>))>>),
   Page(<<Entry("title", YStr("Valid title")), Entry("layout", YStr("runbook")),
          Entry("toc_hide", YBool(FALSE)), Entry("runbook", YNull)>>),
   Page(<<Entry("title", YStr("Valid title")), Entry("layout", YStr("runbook")),
          Entry("toc_hide", YBool(TRUE)),
          Entry("runbook",
                YRunbook(<<RunbookVariable("A", "", ""), RunbookVariable("AB", "", "")>>,
                         <<RunbookDashboard("Prefix", "$AB//x"),
                           RunbookDashboard("Plain", "http://host/$AB/$A"),
                           RunbookDashboard("Split", "htt$Aps://host")>>,
                         <<>>))>>)}

FieldDocs == Docs \cup MixedDocs

InitOnce ==
  /\ validator = NewValidator
  /\ calls = NoCalls
  /\ validationMode = ValidateAll
  /\ configFile = NoConfigFile
  /\ configManager \in ConfigManagers
  /\ now = StartTime
  /\ pc = "start"
  /\ filePath = ""
  /\ content = Text(<<>>, FALSE)
  /\ today = StartTime
  /\ result = EmptyResult
  /\ enabledChecks = {}
  /\ prev = NoPrev

NextOnce ==
  \/ \E path \in Paths, text \in FieldDocs : ReadFile(path, text)
  \/ Validate
  \/ EndIteration

SpecOnce == InitOnce /\ [][NextOnce]_vars

\* the findings of a check that carry the given value
CountValue(check, value) ==
  Cardinality({i \in 1..Len(result.Checks) :
                 result.Checks[i].Check = check /\ result.Checks[i].Value = value})

\* the top-level keys of the block of the file last read
BlockKeys == UnmarshalGeneric(parseFrontMatter(content).fmString).keys

\* C21: for a decodable block the result holds exactly one UNKNOWN_ATTRIBUTE
\* finding per key outside GetValidKeys, with the key as value, and none for
\* a recognized key, whatever the configuration and the other findings; the
\* other findings are those of the same block without the scan.
C21_OnePerUnknownKey ==
  (pc = "done" /\ Decodable) =>
    LET keys == BlockKeys
    IN  /\ \A key \in keys :
             CountValue(UnknownAttribute, <<key>>) = IF key \in GetValidKeys THEN 0 ELSE 1
        /\ Count(UnknownAttribute) = Cardinality(keys \ GetValidKeys)
        /\ Others(result.Checks) =
             validateAll(configManager, Meta, parseFrontMatter(content).fmString,
                         filePath, today, <<>>,
                         [i \in 1..Len(Meta.Runbook.Dashboards) |->
                            CHOOSE o \in Orders(DeclaredVariableNames(Meta.Runbook)) : TRUE])

\* two unknown keys among recognized keys with violations of their own, under
\* a configuration in which UNKNOWN_ATTRIBUTE is not active
C21_Witness ==
  /\ pc = "done"
  /\ Decodable
  /\ BlockKeys = {"title", "zeta", "owner", "alpha", "description"}
  /\ UnknownAttribute \notin enabledChecks
  /\ CountValue(UnknownAttribute, <<"zeta">>) = 1
  /\ CountValue(UnknownAttribute, <<"alpha">>) = 1
  /\ {ShortTitle, InvalidOwner} \subseteq Reported

\* positions of the owner entries without the team URL prefix
BadOwners(owner) == {i \in 1..Len(owner) : ~HasPrefix(owner[i], OwnerPrefix)}

\* C22: an empty owner list yields NO_OWNER when active; a list with at least
\* one entry lacking the prefix yields exactly one INVALID_OWNER whose value
\* is the whole list; a list whose entries all have the prefix yields neither.
C22_OwnerFindings ==
  (pc = "done" /\ Decodable) =>
    LET owner == Meta.Owner
    IN  /\ Count(NoOwner) = IF owner = <<>> /\ NoOwner \in enabledChecks THEN 1 ELSE 0
        /\ FindingsOf(InvalidOwner) =
             IF BadOwners(owner) # {}
             THEN <<CheckResult(InvalidOwner, owner, 0, "", <<>>)>>
             ELSE <<>>

\* three owners, two of them without the prefix
C22_Witness ==
  /\ pc = "done"
  /\ Decodable
  /\ Len(Meta.Owner) = 3
  /\ Cardinality(BadOwners(Meta.Owner)) = 2
  /\ Count(InvalidOwner) = 1
  /\ FindingsOf(InvalidOwner)[1].Value = Meta.Owner
  /\ InvalidOwner \notin enabledChecks

\* C23: NO_USER_QUESTIONS is never reported for a path ending in _index.md;
\* for other paths an empty list yields it when the check is active.  A
\* non-empty list yields one LONG_USER_QUESTION per entry longer than 100 and
\* one NO_QUESTION_MARK per entry not ending in "?", with the entry as value.
C23_UserQuestions ==
  pc = "done" =>
    /\ HasSuffix(filePath, "_index.md") => NoUserQuestions \notin Reported
    /\ Decodable =>
         LET questions == Meta.UserQuestions
             long      == {i \in 1..Len(questions) : Len(questions[i]) > 100}
             unmarked  == {i \in 1..Len(questions) : ~HasSuffix(questions[i], "?")}
         IN  /\ Count(NoUserQuestions) =
                  IF /\ questions = <<>>
                     /\ NoUserQuestions \in enabledChecks
                     /\ ~HasSuffix(filePath, "_index.md")
                  THEN 1 ELSE 0
             /\ Count(LongUserQuestion) = Cardinality(long)
             /\ Count(NoQuestionMark) = Cardinality(unmarked)
             /\ \A i \in long : <<questions[i]>> \in ValuesOf(LongUserQuestion)
             /\ \A i \in unmarked : <<questions[i]>> \in ValuesOf(NoQuestionMark)

\* an _index.md page without user questions, NO_USER_QUESTIONS being active
\* for its path and other findings being reported
C23_Witness ==
  /\ pc = "done"
  /\ Decodable
  /\ HasSuffix(filePath, "_index.md")
  /\ Meta.UserQuestions = <<>>
  /\ NoUserQuestions \in enabledChecks
  /\ NoUserQuestions \notin Reported
  /\ NoOwner \in Reported

\* three questions: two longer than 100, one of them without a question mark
C23_SeveralFindings ==
  /\ pc = "done"
  /\ Decodable
  /\ Len(Meta.UserQuestions) = 3
  /\ Count(LongUserQuestion) = 2
  /\ Count(NoQuestionMark) = 1

\* the link title of the page: linkTitle, or title when linkTitle is empty
EffectiveLinkTitle(fm) == IF fm.LinkTitle = "" THEN fm.Title ELSE fm.LinkTitle

C24_LongTitleWitness ==
  /\ pc = "done"
  /\ Decodable
  /\ Len(Meta.Title) = 41
  /\ LongLinkTitle \in enabledChecks
  /\ (LongLinkTitle \in Reported) <=> (Meta.LinkTitle = "")

\* the checks of validateRunbook and of the validators it calls
RunbookChecks ==
  {RunbookLayoutNotSet, RunbookAppearsInMenu, InvalidRunbookVariables,
   RunbookVariableWithoutName, InvalidRunbookVariableName, InvalidRunbookVariable,
   InvalidRunbookDashboards, InvalidRunbookDashboard, InvalidRunbookDashboardLink,
   InvalidRunbookKnownIssues, InvalidRunbookKnownIssue, InvalidRunbookKnownIssueURL}

RunbookFindings == SelectSeq(result.Checks, LAMBDA c : c.Check \in RunbookChecks)

\* C25: with a runbook declaration and a layout other than runbook the only
\* runbook finding is one RUNBOOK_LAYOUT_NOT_SET (where active), whatever the
\* lists hold; with layout runbook RUNBOOK_LAYOUT_NOT_SET is never reported,
\* RUNBOOK_APPEARS_IN_MENU is reported (where active) iff toc_hide is not
\* true, and without a declaration there is no other runbook finding; with
\* neither there is no runbook finding.
C25_RunbookBranches ==
  (pc = "done" /\ Decodable) =>
    LET fm == Meta
        menu == IF ~fm.TocHide /\ RunbookAppearsInMenu \in enabledChecks
                THEN <<Finding(RunbookAppearsInMenu)>> ELSE <<>>
    IN  /\ (fm.Layout # "runbook" /\ fm.Runbook.set) =>
             RunbookFindings = IF RunbookLayoutNotSet \in enabledChecks
                               THEN <<Finding(RunbookLayoutNotSet)>> ELSE <<>>
        /\ fm.Layout = "runbook" =>
             /\ RunbookLayoutNotSet \notin Reported
             /\ FindingsOf(RunbookAppearsInMenu) = menu
             /\ ~fm.Runbook.set => RunbookFindings = menu
        /\ (fm.Layout # "runbook" /\ ~fm.Runbook.set) => RunbookFindings = <<>>

\* a declaration with a variable named "lower" under layout docs: only
\* RUNBOOK_LAYOUT_NOT_SET
C25_Witness ==
  /\ pc = "done"
  /\ Decodable
  /\ Meta.Layout = "docs"
  /\ Meta.Runbook.set
  /\ Meta.Runbook.Variables # <<>>
  /\ RunbookFindings = <<Finding(RunbookLayoutNotSet)>>

\* layout runbook, toc_hide false, no declaration: only RUNBOOK_APPEARS_IN_MENU
C25_NoDeclaration ==
  /\ pc = "done"
  /\ Decodable
  /\ Meta.Layout = "runbook"
  /\ ~Meta.Runbook.set
  /\ RunbookFindings = <<Finding(RunbookAppearsInMenu)>>

(* ---------------- the order of the stages of ValidateFile ---------------- *)
\* the checks each stage of ValidateFile can append
StageChecks(stage) ==
  CASE stage = "newline"                   -> {NoTrailingNewline}
    [] stage = "parse"                     -> {NoFrontMatter}
    [] stage = "validateUnknownAttributes" -> {UnknownAttribute}
    [] stage = "validateTitle"             -> {NoTitle, ShortTitle, LongTitle}
    [] stage = "validateDescription"       ->
         {NoDescription, InvalidDescription, ShortDescription, LongDescription,
          NoFullStopDescription}
    [] stage = "validateLinkTitle"         -> {LongLinkTitle}
    [] stage = "validateMenuAndWeight"     -> {NoLinkTitle, NoWeight}
    [] stage = "validateOwner"             -> {NoOwner, InvalidOwner}
    [] stage = "validateUserQuestions"     ->
         {NoUserQuestions, LongUserQuestion, NoQuestionMark}
    [] stage = "validateLastReviewDate"    ->
         {NoLastReviewDate, InvalidLastReviewDate, ReviewTooLongAgo}
    [] stage = "validateRunbook"           -> RunbookChecks
    [] OTHER                               -> {}

\* the place of a check in the order of the stages, the runbook stage split
\* into the menu test and its three list validators
CheckRank(check) ==
  CASE check \in StageChecks("newline")                   -> 1
    [] check \in StageChecks("parse")                     -> 2
    [] check \in StageChecks("validateUnknownAttributes") -> 3
    [] check \in StageChecks("validateTitle")             -> 4
    [] check \in StageChecks("validateDescription")       -> 5
    [] check \in StageChecks("validateLinkTitle")         -> 6
    [] check \in StageChecks("validateMenuAndWeight")     -> 7
    [] check \in StageChecks("validateOwner")             -> 8
    [] check \in StageChecks("validateUserQuestions")     -> 9
    [] check \in StageChecks("validateLastReviewDate")    -> 10
    [] check \in {RunbookAppearsInMenu, RunbookLayoutNotSet} -> 11
    [] check \in {InvalidRunbookVariables, RunbookVariableWithoutName,
                  InvalidRunbookVariableName, InvalidRunbookVariable} -> 12
    [] check \in {InvalidRunbookDashboards, InvalidRunbookDashboard,
                  InvalidRunbookDashboardLink} -> 13
    [] OTHER -> 14

\* the place of a stage in ValidateFile
StageRank(stage) ==
  CASE stage = "newline"                   -> 1
    [] stage = "parse"                     -> 2
    [] stage = "validateUnknownAttributes" -> 3
    [] stage = "validateTitle"             -> 4
    [] stage = "validateDescription"       -> 5
    [] stage = "validateLinkTitle"         -> 6
    [] stage = "validateMenuAndWeight"     -> 7
    [] stage = "validateOwner"             -> 8
    [] stage = "validateUserQuestions"     -> 9
    [] stage = "validateLastReviewDate"    -> 10
    [] stage = "validateRunbook"           -> 11
    [] OTHER                               -> 0

\* no finding of an earlier stage after a finding of a later one
InStageOrder(checks) ==
  \A i, j \in 1..Len(checks) :
    i < j => CheckRank(checks[i].Check) <= CheckRank(checks[j].Check)

\* the call returns without reaching validateAll
ShortCircuits(call) ==
  \/ call.stage = "newline" /\ ~EndsWithNewline(call.content)
  \/ call.stage = "parse" /\ (parseFrontMatter(call.content).err
                               \/ parseFrontMatter(call.content).isNil)

\* one step of a call: it appends findings of its stage only, keeps the order
\* of the stages, returns early exactly on a short circuit and otherwise
\* moves on to the next stage, the last of which is validateRunbook
StepInOrder(t) ==
  LET a == calls[t]
      b == calls'[t]
      appended == SubSeq(b.result.Checks, Len(a.result.Checks) + 1, Len(b.result.Checks))
  IN  (a # b /\ a.stage \notin {"idle", "returned"}) =>
        /\ IsPrefixSeq(a.result.Checks, b.result.Checks)
        /\ \A i \in 1..Len(appended) : appended[i].Check \in StageChecks(a.stage)
        /\ InStageOrder(b.result.Checks)
        /\ (b.stage = "returned") <=> (ShortCircuits(a) \/ a.stage = "validateRunbook")
        /\ (b.stage = "validateRunbook") <=> (a.stage = "validateLastReviewDate")
        /\ b.stage # "returned" => StageRank(b.stage) = StageRank(a.stage) + 1

\* C26: every call runs the stages of ValidateFile in the fixed order
\* (trailing newline, extraction, unknown attributes, title, description,
\* link title, menu and weight, owner, user questions, review date, runbook:
\* menu, variables, dashboards, known issues); no finding of an earlier stage
\* follows one of a later stage, and validateRunbook is reached exactly when
\* neither short circuit returned.
C26_StagesInOrder == [][\A t \in Threads : StepInOrder(t)]_vars

\* a returned call whose findings come from six stages and, within the
\* runbook stage, from the menu test and each of the three list validators
C26_Witness ==
  \E t \in Threads :
    /\ calls[t].stage = "returned"
    /\ configManager = DefaultConfigManager
    /\ LET ranks == {CheckRank(calls[t].result.Checks[i].Check) :
                       i \in 1..Len(calls[t].result.Checks)}
       IN  {3, 4, 5, 8, 11, 12, 13, 14} \subseteq ranks

(* ---------------- the legacy catalog and its ignore paths ---------------- *)
PathVintage == "src/content/vintage"
PathChanges == "src/content/changes"
PathCRDs == "src/content/reference/platform-api/crd"
PathVintageCRDs == "src/content/vintage/use-the-api/management-api/crd"
PathClusterApps == "src/content/reference/platform-api/cluster-apps"
PathMeta == "src/content/meta"

LegacyCheck(id, ignorePaths) == [ID |-> id, IgnorePaths |-> ignorePaths]

\* GetChecks of pkg/validator/checks.go: the ID and the IgnorePaths of each
\* check
GetChecksLegacy ==
  <<LegacyCheck(NoFrontMatter, <<>>),
    LegacyCheck(NoTrailingNewline, <<>>),
    LegacyCheck(UnknownAttribute, <<>>),
    LegacyCheck(NoTitle, <<>>),
    LegacyCheck(LongTitle, <<>>),
    LegacyCheck(ShortTitle, <<>>),
    LegacyCheck(NoDescription, <<PathCRDs, PathVintageCRDs, PathChanges>>),
    LegacyCheck(LongDescription, <<PathCRDs, PathVintageCRDs>>),
    LegacyCheck(NoFullStopDescription, <<PathCRDs, PathVintageCRDs, PathChanges>>),
    LegacyCheck(ShortDescription, <<PathCRDs, PathVintageCRDs, PathChanges>>),
    LegacyCheck(InvalidDescription, <<PathCRDs, PathVintageCRDs>>),
    LegacyCheck(NoLinkTitle, <<PathCRDs, PathVintageCRDs, PathChanges>>),
    LegacyCheck(LongLinkTitle, <<PathChanges>>),
    LegacyCheck(NoWeight, <<>>),
    LegacyCheck(NoOwner, <<PathCRDs, PathVintageCRDs, PathChanges>>),
    LegacyCheck(InvalidOwner, <<>>),
    LegacyCheck(NoLastReviewDate,
                <<PathCRDs, PathVintage, PathChanges, PathClusterApps, PathMeta>>),
    LegacyCheck(ReviewTooLongAgo, <<PathVintage, PathChanges, PathClusterApps, PathCRDs>>),
    LegacyCheck(InvalidLastReviewDate, <<>>),
    LegacyCheck(NoUserQuestions, <<PathCRDs, PathVintageCRDs, PathChanges>>),
    LegacyCheck(LongUserQuestion, <<>>),
    LegacyCheck(NoQuestionMark, <<>>)>>

LegacyIDs == {GetChecksLegacy[i].ID : i \in 1..Len(GetChecksLegacy)}

\* GetCheckByID on the legacy catalog, for an ID of the catalog
GetCheckByID(id) ==
  GetChecksLegacy[CHOOSE i \in 1..Len(GetChecksLegacy) : GetChecksLegacy[i].ID = id]

\* the legacy Validator.isIgnoredPath
isIgnoredPath(path, checkID) ==
  IF checkID \notin LegacyIDs THEN FALSE
  ELSE \E i \in 1..Len(GetCheckByID(checkID).IgnorePaths) :
         HasPrefix(path, GetCheckByID(checkID).IgnorePaths[i])

LegacyRoots ==
  {PathVintage, PathChanges, PathCRDs, PathVintageCRDs, PathClusterApps, PathMeta,
   "src/content", "src/content/vintage/use-the-api", "docs"}

LegacyTails ==
  {"", "/x.md", "/sub/x.md", "/_index.md", "-old/x.md", ".md", "/"}

LegacyPaths ==
  {lead \o root \o tail : lead \in {"", "./"}, root \in LegacyRoots, tail \in LegacyTails}

\* the Manager of a run whose configuration file does not exist
InitLegacy ==
  /\ validator = NewValidator
  /\ calls = NoCalls
  /\ validationMode = ValidateAll
  /\ configFile = MissingFile
  /\ configManager = NewManager(MissingFile).manager
  /\ now = StartTime
  /\ pc = "start"
  /\ filePath = ""
  /\ content = Text(<<>>, FALSE)
  /\ today = StartTime
  /\ result = EmptyResult
  /\ enabledChecks = {}
  /\ prev = NoPrev

NextLegacy == \E path \in LegacyPaths : ResolvePath(path)

SpecLegacy == InitLegacy /\ [][NextLegacy]_vars

\* C27: under the default configuration a check of the legacy catalog is
\* enabled for a path exactly when the legacy isIgnoredPath is false for it.
C27_DefaultsMatchLegacy ==
  pc = "resolved" =>
    \A check \in LegacyIDs :
      (check \in enabledChecks) <=> ~isIgnoredPath(filePath, check)


(* ---------------- staleness against the expiration period ---------------- *)
\* the expiration periods of the documents, in days
ExpirationPeriods == {DefaultExpirationDays, 500, 400, 0, -1, 106751, 106752}

\* the comparison of validateLastReviewDate for the date of the file last
\* read, the current time and an expiration of e days
TooLongAgoFor(t, e) == SignedGreater(Sub(today, t), ExpirationDuration(e))

\* C28: for a fixed current time and a date that is not in the future the
\* staleness decision is monotone in expiration_in_days: a date reported
\* REVIEW_TOO_LONG_AGO for a period is reported for every shorter period.
C28_MonotoneInExpiration ==
  (/\ pc = "done"
   /\ Decodable
   /\ ReviewTooLongAgo \in enabledChecks) =>
    LET fm == Meta
    IN  (fm.LastReviewDate.set /\ ~After(fm.LastReviewDate.Time, today)) =>
          \A e \in ExpirationPeriods :
            (ExpirationDays <= e /\ TooLongAgoFor(fm.LastReviewDate.Time, e))
              => ReviewTooLongAgo \in Reported

(* ---------------- the URL format of a dashboard link --------------------- *)
\* the test of validateRunbookDashboardLink on the substituted text
HasURLScheme(testLink) == HasPrefix(testLink, "http://") \/ HasPrefix(testLink, "https://")

\* the outcomes of the test over every order in which the names can be
\* substituted
SchemeOutcomes(link, names) ==
  {HasURLScheme(ReplaceVariables(link, nameOrder)) : nameOrder \in Orders(names)}

\* C29: where the check is active, the URL-format decision for the link of a
\* complete dashboard is the same for every order in which the declared
\* names are substituted, and "Invalid URL format" is reported once per
\* dashboard for exactly the links whose substituted text starts with neither
\* http:// nor https://.
C29_UrlFormatDecision ==
  (/\ pc = "done"
   /\ InvalidRunbookDashboardLink \in enabledChecks
   /\ RunbookLayout) =>
    LET dashboards == Meta.Runbook.Dashboards
        names      == NamesOf(Meta.Runbook.Variables)
    IN  \A i \in Complete(dashboards) :
          /\ Cardinality(SchemeOutcomes(dashboards[i].Link, names)) = 1
          /\ CountValue(InvalidRunbookDashboardLink,
                        <<"Invalid URL format: " \o dashboards[i].Link>>) =
               IF TRUE \in SchemeOutcomes(dashboards[i].Link, names) THEN 0
               ELSE Cardinality({j \in Complete(dashboards) :
                                   dashboards[j].Link = dashboards[i].Link})

\* names A and AB: the two orders substitute $AB//x differently, the link is
\* reported, and http://host/$AB/$A is not
C29_Witness ==
  /\ pc = "done"
  /\ RunbookLayout
  /\ NamesOf(Meta.Runbook.Variables) = {"A", "AB"}
  /\ ReplaceVariables("$AB//x", <<"A", "AB">>) # ReplaceVariables("$AB//x", <<"AB", "A">>)
  /\ CountValue(InvalidRunbookDashboardLink, <<"Invalid URL format: $AB//x">>) = 1
  /\ CountValue(InvalidRunbookDashboardLink, <<"Invalid URL format: htt$Aps://host">>) = 1
  /\ CountPrefixed(InvalidRunbookDashboardLink, "Invalid URL format: ") = 2
  /\ Len(Meta.Runbook.Dashboards) = 3

(* ---------------- findings that exclude each other ----------------------- *)
\* no finding of the set `others` next to the finding `check`
Excludes(check, others) == check \in Reported => Reported \cap others = {}

\* C30: in every result, under every configuration, NO_FRONT_MATTER and
\* NO_TRAILING_NEWLINE stand alone, and the finding for a missing field
\* excludes the findings for the same field being malformed: NO_TITLE the
\* title lengths, SHORT_TITLE the LONG_TITLE, NO_DESCRIPTION the four
\* description findings, NO_OWNER the INVALID_OWNER, NO_USER_QUESTIONS the
\* two question findings, NO_LAST_REVIEW_DATE the two date findings.
C30_MutualExclusions ==
  pc = "done" =>
    /\ NoFrontMatter \in Reported => Len(result.Checks) = 1
    /\ NoTrailingNewline \in Reported => Len(result.Checks) = 1
    /\ Excludes(NoTitle, {ShortTitle, LongTitle})
    /\ Excludes(ShortTitle, {LongTitle})
    /\ Excludes(NoDescription, {InvalidDescription, ShortDescription, LongDescription,
                                NoFullStopDescription})
    /\ Excludes(NoOwner, {InvalidOwner})
    /\ Excludes(NoUserQuestions, {LongUserQuestion, NoQuestionMark})
    /\ Excludes(NoLastReviewDate, {InvalidLastReviewDate, ReviewTooLongAgo})

\* a result with the finding for the missing field of all five fields
C30_Witness ==
  /\ pc = "done"
  /\ {NoTitle, NoDescription, NoOwner, NoUserQuestions, NoLastReviewDate} \subseteq Reported

\* a text without final line terminator: NO_TRAILING_NEWLINE alone
C30_NewlineAlone ==
  /\ pc = "done"
  /\ ~EndsWithNewline(content)
  /\ Cardinality(DelimiterMatches(content)) >= 2
  /\ result.Checks = <<CheckResult(NoTrailingNewline, <<>>, 1 + CountNewlines(content), "", <<>>)>>
====
